---- MODULE Spec2Model ----
(***************************************************************************)
(* A model of regobrick's conversion layer (convert.RegoToGo,              *)
(* convert.GoToRego), of its function adapters (convert.FnWrapN and        *)
(* builtin.AdapterN) and of its module parsing (module.ParseModule with    *)
(* the default-false transform).                                           *)
(*                                                                         *)
(* Rego values (ast.Value) and Go values (reflect.Value) are records with  *)
(* a tag and a payload whose field name depends on the tag.  Number text   *)
(* is a sequence of one-character strings, so that formatting and parsing  *)
(* are computed digit by digit.  Integers are sign and magnitude digit     *)
(* sequences, which keeps the 64-bit bounds of strconv exact.              *)
(***************************************************************************)
EXTENDS Integers, Sequences, FiniteSets, TLC

(***************************************************************************)
(* Bounds of the model.                                                    *)
(***************************************************************************)
\* largest number of terms handed to an adapter
MaxTerms == 3
\* largest adapter arity exercised (the code defines arities 0..5)
MaxArity == 2
\* largest number of rules in a parsed module
MaxRules == 3
\* largest number of extra import paths handed to ParseModule
MaxImports == 1
\* largest number of modules configured on a Brick
MaxModules == 2

(***************************************************************************)
(* Characters, digits and big integers.                                    *)
(***************************************************************************)
Digits == <<"0", "1", "2", "3", "4", "5", "6", "7", "8", "9">>

IsDigit(c) == \E i \in 1..10 : Digits[i] = c

DigitVal(c) == (CHOOSE i \in 1..10 : Digits[i] = c) - 1

\* drop the first n elements of a sequence
Drop(s, n) == SubSeq(s, n + 1, Len(s))

\* a magnitude without leading zeros (zero is <<0>>)
RECURSIVE StripZeros(_)
StripZeros(m) ==
    IF Len(m) > 1 /\ m[1] = 0 THEN StripZeros(Tail(m)) ELSE m

\* -1, 0, 1 as a < b, a = b, a > b; a and b canonical magnitudes
RECURSIVE CmpSameLen(_, _)
CmpSameLen(a, b) ==
    IF Len(a) = 0 THEN 0
    ELSE IF a[1] < b[1] THEN -1
    ELSE IF a[1] > b[1] THEN 1
    ELSE CmpSameLen(Tail(a), Tail(b))

CmpMag(a, b) ==
    IF Len(a) < Len(b) THEN -1
    ELSE IF Len(a) > Len(b) THEN 1
    ELSE CmpSameLen(a, b)

BigInt(neg, mag) ==
    LET m == StripZeros(mag)
    IN  [neg |-> neg /\ m # <<0>>, mag |-> m]

\* a <= b on big integers
BigLeq(a, b) ==
    IF a.neg /\ ~b.neg THEN TRUE
    ELSE IF ~a.neg /\ b.neg THEN FALSE
    ELSE IF a.neg THEN CmpMag(a.mag, b.mag) >= 0
    ELSE CmpMag(a.mag, b.mag) <= 0

MinInt8 == BigInt(TRUE, <<1, 2, 8>>)
MaxInt8 == BigInt(FALSE, <<1, 2, 7>>)
MinInt16 == BigInt(TRUE, <<3, 2, 7, 6, 8>>)
MaxInt16 == BigInt(FALSE, <<3, 2, 7, 6, 7>>)
MinInt32 == BigInt(TRUE, <<2, 1, 4, 7, 4, 8, 3, 6, 4, 8>>)
MaxInt32 == BigInt(FALSE, <<2, 1, 4, 7, 4, 8, 3, 6, 4, 7>>)
MinInt64 == BigInt(TRUE, <<9, 2, 2, 3, 3, 7, 2, 0, 3, 6, 8, 5, 4, 7, 7, 5, 8, 0, 8>>)
MaxInt64 == BigInt(FALSE, <<9, 2, 2, 3, 3, 7, 2, 0, 3, 6, 8, 5, 4, 7, 7, 5, 8, 0, 7>>)
MaxUint8 == BigInt(FALSE, <<2, 5, 5>>)
MaxUint16 == BigInt(FALSE, <<6, 5, 5, 3, 5>>)
MaxUint32 == BigInt(FALSE, <<4, 2, 9, 4, 9, 6, 7, 2, 9, 5>>)
MaxUint64 == BigInt(FALSE, <<1, 8, 4, 4, 6, 7, 4, 4, 0, 7, 3, 7, 0, 9, 5, 5, 1, 6, 1, 5>>)
BigZero == BigInt(FALSE, <<0>>)

(***************************************************************************)
(* strconv: integer formatting and parsing, base 10, 64 bits.              *)
(***************************************************************************)
AllDigits(s) == \A i \in 1..Len(s) : IsDigit(s[i])

DigitsOf(s) == [i \in 1..Len(s) |-> DigitVal(s[i])]

CharsOf(m) == [i \in 1..Len(m) |-> Digits[m[i] + 1]]

\* strconv.Itoa / strconv.FormatInt(i, 10)
FormatInt(i) == (IF i.neg THEN <<"-">> ELSE <<>>) \o CharsOf(i.mag)

\* strconv.FormatUint(u, 10)
FormatUint(u) == CharsOf(u.mag)

\* the digits body with the sign neg, as a big integer
UnsignedDigits(neg, body) ==
    IF Len(body) = 0 \/ ~AllDigits(body) THEN [ok |-> FALSE, why |-> "syntax"]
    ELSE [ok |-> TRUE, v |-> BigInt(neg, DigitsOf(body))]

\* an optional sign, then digits, as strconv.ParseInt and big.Int.SetString
\* read them
SignedDigits(s) ==
    IF Len(s) = 0 THEN [ok |-> FALSE, why |-> "syntax"]
    ELSE IF s[1] \in {"+", "-"} THEN UnsignedDigits(s[1] = "-", Tail(s))
    ELSE UnsignedDigits(FALSE, s)

\* the value p of a parse, when it lies in lo..hi
InRange(p, lo, hi) ==
    IF ~p.ok THEN p
    ELSE IF BigLeq(lo, p.v) /\ BigLeq(p.v, hi) THEN p
    ELSE [ok |-> FALSE, why |-> "range"]

\* strconv.ParseUint(s, 10, 64): no sign is accepted
ParseUint(s) == InRange(UnsignedDigits(FALSE, s), BigZero, MaxUint64)

\* strconv.ParseInt(s, 10, 64): an optional sign, then digits
ParseInt(s) == InRange(SignedDigits(s), MinInt64, MaxInt64)

(***************************************************************************)
(* strconv: float64 formatting and parsing.  A float64 is an abstract      *)
(* value named by an identifier; FloatTable gives, for each one, the text  *)
(* FormatFloat(f, 'g', -1, 64) prints, the other texts of the model that   *)
(* ParseFloat(s, 64) maps to it, and the float64 that float64(float32(f))  *)
(* yields.                                                                 *)
(***************************************************************************)
FloatTable == {
    [f |-> "f0", text |-> <<"0">>, accepts |-> {}, f32 |-> "f0"],
    [f |-> "f42", text |-> <<"4", "2">>, accepts |-> {}, f32 |-> "f42"],
    [f |-> "fm7", text |-> <<"-", "7">>, accepts |-> {}, f32 |-> "fm7"],
    [f |-> "f100", text |-> <<"1", "0", "0">>, accepts |-> {}, f32 |-> "f100"],
    [f |-> "f127", text |-> <<"1", "2", "7">>, accepts |-> {}, f32 |-> "f127"],
    [f |-> "f128", text |-> <<"1", "2", "8">>, accepts |-> {}, f32 |-> "f128"],
    [f |-> "fm129", text |-> <<"-", "1", "2", "9">>, accepts |-> {}, f32 |-> "fm129"],
    [f |-> "f300", text |-> <<"3", "0", "0">>, accepts |-> {}, f32 |-> "f300"],
    [f |-> "f65536", text |-> <<"6", "5", "5", "3", "6">>, accepts |-> {},
     f32 |-> "f65536"],
    [f |-> "f2p32",
     text |-> <<"4", ".", "2", "9", "4", "9", "6", "7", "2", "9", "6", "e", "+", "0", "9">>,
     accepts |-> {<<"4", "2", "9", "4", "9", "6", "7", "2", "9", "6">>},
     f32 |-> "f2p32"],
    [f |-> "f2p63",
     text |-> <<"9", ".", "2", "2", "3", "3", "7", "2", "0", "3", "6", "8", "5", "4",
                "7", "7", "6", "e", "+", "1", "8">>,
     accepts |-> {<<"9", "2", "2", "3", "3", "7", "2", "0", "3", "6", "8", "5", "4",
                    "7", "7", "5", "8", "0", "8">>},
     f32 |-> "f2p63"],
    [f |-> "f2p64",
     text |-> <<"1", ".", "8", "4", "4", "6", "7", "4", "4", "0", "7", "3", "7", "0",
                "9", "5", "5", "2", "e", "+", "1", "9">>,
     accepts |-> {<<"1", "8", "4", "4", "6", "7", "4", "4", "0", "7", "3", "7", "0",
                    "9", "5", "5", "1", "6", "1", "6">>},
     f32 |-> "f2p64"],
    [f |-> "f1_5", text |-> <<"1", ".", "5">>, accepts |-> {}, f32 |-> "f1_5"],
    [f |-> "f0_1", text |-> <<"0", ".", "1">>, accepts |-> {}, f32 |-> "f0_1s"],
    [f |-> "f0_1s",
     text |-> <<"0", ".", "1", "0", "0", "0", "0", "0", "0", "0", "1", "4", "9", "0",
                "1", "1", "6", "1", "2">>,
     accepts |-> {}, f32 |-> "f0_1s"],
    [f |-> "f1e39", text |-> <<"1", "e", "+", "3", "9">>,
     accepts |-> {<<"1", "e", "3", "9">>}, f32 |-> "fInf"],
    [f |-> "fInf", text |-> <<"+", "I", "n", "f">>, accepts |-> {<<"I", "n", "f">>},
     f32 |-> "fInf"],
    [f |-> "fNaN", text |-> <<"N", "a", "N">>, accepts |-> {}, f32 |-> "fNaN"] }

FloatRow(f) == CHOOSE r \in FloatTable : r.f = f

\* strconv.FormatFloat(f, 'g', -1, 64)
FormatFloat(f) == FloatRow(f).text

\* strconv.ParseFloat(s, 64)
ParseFloat(s) ==
    IF \E r \in FloatTable : s = r.text \/ s \in r.accepts
    THEN [ok |-> TRUE,
          v |-> (CHOOSE r \in FloatTable : s = r.text \/ s \in r.accepts).f]
    ELSE [ok |-> FALSE, why |-> "syntax"]

\* float64(float32(f))
Narrow32(f) == FloatRow(f).f32

Float64s == {r.f : r \in FloatTable}
Float32s == {r.f : r \in {q \in FloatTable : q.f32 = q.f}}

(***************************************************************************)
(* time.Parse / Time.Format with DefaultTimeFormat (time.RFC3339Nano) and  *)
(* decimal.NewFromString / Decimal.String.                                 *)
(***************************************************************************)
DefaultTimeFormat == "RFC3339Nano"

\* the strings of the model that time.Parse accepts, with the instant each names
TimeTable == { [s |-> "2025-02-16T12:34:56Z", tm |-> "t1"] }

TimeParse(layout, s) ==
    IF layout = DefaultTimeFormat /\ \E r \in TimeTable : r.s = s
    THEN [ok |-> TRUE, v |-> (CHOOSE r \in TimeTable : r.s = s).tm]
    ELSE [ok |-> FALSE, why |-> "syntax"]

TimeFormat(layout, tm) == (CHOOSE r \in TimeTable : r.tm = tm).s

\* index of the first character of s that is in cs, from i on, or 0
RECURSIVE IndexAny(_, _, _)
IndexAny(s, cs, i) ==
    IF i > Len(s) THEN 0 ELSE IF s[i] \in cs THEN i ELSE IndexAny(s, cs, i + 1)

Count(s, c) == Cardinality({i \in 1..Len(s) : s[i] = c})

RECURSIVE StripTrailingZeros(_)
StripTrailingZeros(m) ==
    IF Len(m) > 1 /\ m[Len(m)] = 0
    THEN StripTrailingZeros(SubSeq(m, 1, Len(m) - 1)) ELSE m

Zeros(n) == [i \in 1..n |-> 0]

\* the value of a short magnitude as an integer
RECURSIVE MagVal(_)
MagVal(m) == IF Len(m) = 0 THEN 0 ELSE 10 * MagVal(SubSeq(m, 1, Len(m) - 1)) + m[Len(m)]

\* a decimal is value * 10^exp (decimal.Decimal{value, exp}).  Decimal.Equal
\* and Decimal.String depend on the number only, so the coefficient is kept
\* without trailing zeros
MkDecimal(neg, mag, exp) ==
    LET m == StripZeros(mag)
        t == StripTrailingZeros(m)
    IN  IF t = <<0>> THEN [neg |-> FALSE, coef |-> <<0>>, exp |-> 0]
        ELSE [neg |-> neg, coef |-> t, exp |-> exp + (Len(m) - Len(t))]

DecimalZero == MkDecimal(FALSE, <<0>>, 0)

\* a short big integer as an integer
SignedVal(b) == IF b.neg THEN 0 - MagVal(b.mag) ELSE MagVal(b.mag)

\* an end of NewFromString that forgets the digits after the point
newFromIntNoFrac(exp, parsed, fracLen) ==
    IF ~parsed.ok THEN [ok |-> FALSE, why |-> "syntax"]
    ELSE [ok |-> TRUE, v |-> MkDecimal(parsed.v.neg, parsed.v.mag, SignedVal(exp))]

\* the end of decimal.NewFromString: exp is the exponent, parsed the outcome
\* of big.Int.SetString on the digits, fracLen the number of digits after
\* the point
newFromInt(exp, parsed, fracLen) ==
    IF ~parsed.ok THEN [ok |-> FALSE, why |-> "syntax"]
    ELSE [ok |-> TRUE,
          v |-> MkDecimal(parsed.v.neg, parsed.v.mag, SignedVal(exp) - fracLen)]

\* decimal.NewFromString after the exponent: expP is the parsed exponent,
\* value the text before it, pIndex the index of its first "." (0 without)
newFromParts(expP, value, pIndex) ==
    IF ~expP.ok \/ Len(expP.v.mag) > 9 THEN [ok |-> FALSE, why |-> "syntax"]
    ELSE IF pIndex = 0 THEN newFromInt(expP.v, SignedDigits(value), 0)
    ELSE IF Count(value, ".") > 1 THEN [ok |-> FALSE, why |-> "syntax"]
    ELSE newFromInt(expP.v,
                    SignedDigits(SubSeq(value, 1, pIndex - 1) \o Drop(value, pIndex)),
                    Len(value) - pIndex)

\* decimal.NewFromString from the index eIndex of the first "e" or "E" on
newFromExp(s, eIndex) ==
    IF eIndex = 0
    THEN newFromParts([ok |-> TRUE, v |-> BigZero], s, IndexAny(s, {"."}, 1))
    ELSE newFromParts(ParseInt(Drop(s, eIndex)), SubSeq(s, 1, eIndex - 1),
                      IndexAny(SubSeq(s, 1, eIndex - 1), {"."}, 1))

\* decimal.NewFromString
NewFromString(s) == newFromExp(s, IndexAny(s, {"e", "E"}, 1))

\* Decimal.String(): plain notation, trailing zeros of the fraction trimmed
DecimalString(d) ==
    LET sign == IF d.neg THEN <<"-">> ELSE <<>>
        n == Len(d.coef)
    IN  IF d.exp >= 0 THEN sign \o CharsOf(d.coef \o Zeros(d.exp))
        ELSE IF n > 0 - d.exp
        THEN sign \o CharsOf(SubSeq(d.coef, 1, n + d.exp)) \o <<".">>
                  \o CharsOf(SubSeq(d.coef, n + d.exp + 1, n))
        ELSE sign \o <<"0", ".">> \o CharsOf(Zeros((0 - d.exp) - n) \o d.coef)

(***************************************************************************)
(* Rego values (ast.Value).  Object entries and Set members are kept in    *)
(* the order ast.Compare gives them, which is the order Foreach visits     *)
(* them in; ElemOrder lists, in that order, the values the model uses as   *)
(* Object keys and Set members.                                            *)
(***************************************************************************)
Null == [k |-> "null"]
Boolean(b) == [k |-> "boolean", b |-> b]
String(s) == [k |-> "string", s |-> s]
Number(n) == [k |-> "number", n |-> n]
Array(elems) == [k |-> "array", elems |-> elems]
Object(ents) == [k |-> "object", ents |-> ents]
Set(mem) == [k |-> "set", mem |-> mem]

Item(key, val) == [key |-> key, val |-> val]

ElemOrder ==
    << Number(<<"1">>), String(""), String("A"), String("B"), String("a"),
       String("b"), String("bar"), String("foo"), Array(<<>>) >>

Pos(v) == CHOOSE i \in 1..Len(ElemOrder) : ElemOrder[i] = v

\* ast.Object.Get: the value under key, or the absent term
ObjGet(obj, key) ==
    IF \E i \in 1..Len(obj.ents) : obj.ents[i].key = key
    THEN [found |-> TRUE,
          val |-> obj.ents[CHOOSE i \in 1..Len(obj.ents) : obj.ents[i].key = key].val]
    ELSE [found |-> FALSE]

\* ast.Object.Insert: replaces the entry of an equal key, keeps key order
ObjInsert(obj, key, val) ==
    LET before == SelectSeq(obj.ents, LAMBDA e : Pos(e.key) < Pos(key))
        after == SelectSeq(obj.ents, LAMBDA e : Pos(e.key) > Pos(key))
    IN  Object(before \o <<Item(key, val)>> \o after)

\* ast.Set.Add
SetAdd(set, v) ==
    LET before == SelectSeq(set.mem, LAMBDA e : Pos(e) < Pos(v))
        after == SelectSeq(set.mem, LAMBDA e : Pos(e) > Pos(v))
    IN  Set(before \o <<v>> \o after)

ObjKeys(obj) == {obj.ents[i].key : i \in 1..Len(obj.ents)}
SetMembers(set) == {set.mem[i] : i \in 1..Len(set.mem)}

(***************************************************************************)
(* Go types (reflect.Type).  A struct field carries its json tag as the    *)
(* part before the first comma: tag.set is FALSE when there is no tag.     *)
(***************************************************************************)
Scalar(kind) == [kind |-> kind, name |-> kind]
Named(name, kind) == [kind |-> kind, name |-> name]
PtrTo(t) == [kind |-> "ptr", elem |-> t]
SliceOf(t) == [kind |-> "slice", elem |-> t]
ArrayOf(n, t) == [kind |-> "array", elem |-> t, len |-> n]
MapOf(kt, et) == [kind |-> "map", key |-> kt, elem |-> et]
StructOf(name, fields) == [kind |-> "struct", name |-> name, fields |-> fields]
\* an interface type with its method set (empty for interface{})
InterfaceOf(methods) == [kind |-> "interface", methods |-> methods]
FuncType == [kind |-> "func"]
ChanType == [kind |-> "chan"]

NoTag == [set |-> FALSE, key |-> ""]
JsonTag(key) == [set |-> TRUE, key |-> key]
Field(name, exported, tag, type) ==
    [name |-> name, exported |-> exported, tag |-> tag, type |-> type]

TBool == Scalar("bool")
TString == Scalar("string")
TInt == Scalar("int")
TInt8 == Scalar("int8")
TInt16 == Scalar("int16")
TInt32 == Scalar("int32")
TInt64 == Scalar("int64")
TUint == Scalar("uint")
TUint8 == Scalar("uint8")
TUint16 == Scalar("uint16")
TUint32 == Scalar("uint32")
TUint64 == Scalar("uint64")
TFloat32 == Scalar("float32")
TFloat64 == Scalar("float64")
TAny == InterfaceOf({})
\* type MyKey string
TMyKey == Named("MyKey", "string")
\* fmt.Stringer
TStringer == InterfaceOf({"String"})
TEmptyStruct == StructOf("struct{}", <<>>)
\* decimal.Decimal, decimal.NullDecimal and time.Time are struct types
TDecimal ==
    StructOf("decimal.Decimal",
             <<Field("value", FALSE, NoTag, TInt64), Field("exp", FALSE, NoTag, TInt32)>>)
TNullDecimal ==
    StructOf("decimal.NullDecimal",
             <<Field("Decimal", TRUE, NoTag, TDecimal), Field("Valid", TRUE, NoTag, TBool)>>)
TTime ==
    StructOf("time.Time",
             <<Field("wall", FALSE, NoTag, TUint64), Field("ext", FALSE, NoTag, TInt64)>>)

SignedKinds == {"int", "int8", "int16", "int32", "int64"}
UnsignedKinds == {"uint", "uint8", "uint16", "uint32", "uint64"}
FloatKinds == {"float32", "float64"}

(***************************************************************************)
(* Go values (reflect.Value): the type, and a payload by kind.             *)
(***************************************************************************)
GoBool(t, b) == [t |-> t, b |-> b]
GoString(t, s) == [t |-> t, s |-> s]
GoInt(t, i) == [t |-> t, i |-> i]
GoFloat(t, f) == [t |-> t, f |-> f]
GoDecimal(d) == [t |-> TDecimal, d |-> d]
GoTime(tm) == [t |-> TTime, tm |-> tm]
GoNil(t) == [t |-> t, nil |-> TRUE]
GoPtr(t, v) == [t |-> t, nil |-> FALSE, p |-> v]
GoIface(t, v) == [t |-> t, nil |-> FALSE, dyn |-> v]
GoSlice(t, elems) == [t |-> t, nil |-> FALSE, elems |-> elems]
GoArray(t, elems) == [t |-> t, elems |-> elems]
\* the entries of a map are a set of [key, val] with distinct keys
GoMap(t, ents) == [t |-> t, nil |-> FALSE, ents |-> ents]
GoStruct(t, fields) == [t |-> t, fields |-> fields]
\* a non-nil func or chan
GoRef(t) == [t |-> t, nil |-> FALSE]

GoNullDecimal(d, valid) ==
    GoStruct(TNullDecimal, <<GoDecimal(d), GoBool(TBool, valid)>>)

IsNil(v) == v.t.kind \in {"ptr", "slice", "map", "interface", "func", "chan"} /\ v.nil

\* reflect.Zero(t)
RECURSIVE Zero(_)
Zero(t) ==
    IF t = TDecimal THEN GoDecimal(DecimalZero)
    ELSE IF t = TTime THEN GoTime("t0")
    ELSE IF t.kind = "bool" THEN GoBool(t, FALSE)
    ELSE IF t.kind = "string" THEN GoString(t, "")
    ELSE IF t.kind \in SignedKinds \cup UnsignedKinds THEN GoInt(t, BigZero)
    ELSE IF t.kind \in FloatKinds THEN GoFloat(t, "f0")
    ELSE IF t.kind = "array" THEN GoArray(t, [i \in 1..t.len |-> Zero(t.elem)])
    ELSE IF t.kind = "struct"
    THEN GoStruct(t, [i \in 1..Len(t.fields) |-> Zero(t.fields[i].type)])
    ELSE GoNil(t)

\* the entries of a map under a key
MapPut(ents, key, val) == {e \in ents : e.key # key} \cup {Item(key, val)}
MapKeys(ents) == {e.key : e \in ents}

Elems(v) == IF v.t.kind = "slice" /\ v.nil THEN <<>> ELSE v.elems
Ents(v) == IF v.nil THEN {} ELSE v.ents

(***************************************************************************)
(* The decoder, convert/rego2go.go.  Every function that writes through a  *)
(* reflect.Value returns the outcome together with the target as the call  *)
(* left it: st is "ok", "err" (an error was returned) or "panic".          *)
(***************************************************************************)
Ok(rv) == [st |-> "ok", err |-> "", rv |-> rv]
Err(e, rv) == [st |-> "err", err |-> e, rv |-> rv]
Panic(rv) == [st |-> "panic", err |-> "panic", rv |-> rv]

\* getStructFieldKey: the json tag's name, the field name without a tag,
\* "" for the tag "-"
getStructFieldKey(sf) ==
    IF ~sf.tag.set THEN sf.name
    ELSE IF sf.tag.key = "-" THEN ""
    ELSE sf.tag.key

\* range checks with the comparisons made strict: the ends of each range
\* are rejected
OutOfRangeStrict(kind, v) ==
    CASE kind = "int8" -> ~(BigLeq(MinInt8, v) /\ BigLeq(v, MaxInt8)) \/ v \in {MinInt8, MaxInt8}
      [] kind = "int16" -> ~(BigLeq(MinInt16, v) /\ BigLeq(v, MaxInt16)) \/ v \in {MinInt16, MaxInt16}
      [] kind = "int32" -> ~(BigLeq(MinInt32, v) /\ BigLeq(v, MaxInt32)) \/ v \in {MinInt32, MaxInt32}
      [] kind = "uint8" -> ~BigLeq(v, MaxUint8) \/ v = MaxUint8
      [] kind = "uint16" -> ~BigLeq(v, MaxUint16) \/ v = MaxUint16
      [] kind = "uint32" -> ~BigLeq(v, MaxUint32) \/ v = MaxUint32
      [] OTHER -> FALSE

\* the per-width range checks of parseRegoNumberInto: v, parsed as 64 bits,
\* does not fit the kind
OutOfRange(kind, v) ==
    CASE kind = "int8" -> ~(BigLeq(MinInt8, v) /\ BigLeq(v, MaxInt8))
      [] kind = "int16" -> ~(BigLeq(MinInt16, v) /\ BigLeq(v, MaxInt16))
      [] kind = "int32" -> ~(BigLeq(MinInt32, v) /\ BigLeq(v, MaxInt32))
      [] kind = "uint8" -> ~BigLeq(v, MaxUint8)
      [] kind = "uint16" -> ~BigLeq(v, MaxUint16)
      [] kind = "uint32" -> ~BigLeq(v, MaxUint32)
      [] OTHER -> FALSE

\* parseRegoNumberInto
parseRegoNumberInto(rv, s) ==
    LET kind == rv.t.kind
        \* p is what ParseInt or ParseUint returned
        setInt(p) == IF ~p.ok THEN Err(p.why, rv)
                     ELSE IF OutOfRange(kind, p.v) THEN Err("range", rv)
                     ELSE Ok(GoInt(rv.t, p.v))
        \* p is what ParseFloat returned
        setFloat(p) == IF ~p.ok THEN Err(p.why, rv)
                       ELSE IF kind = "float32" THEN Ok(GoFloat(rv.t, Narrow32(p.v)))
                       ELSE Ok(GoFloat(rv.t, p.v))
    IN  IF kind \in SignedKinds THEN setInt(ParseInt(s))
        ELSE IF kind \in UnsignedKinds THEN setInt(ParseUint(s))
        ELSE IF kind \in FloatKinds THEN setFloat(ParseFloat(s))
        ELSE Err("unsupported", rv)

\* convertRegoToNullDecimal
convertRegoToNullDecimal(aVal, rv) ==
    IF aVal.k = "null" THEN Ok(GoNullDecimal(DecimalZero, FALSE))
    ELSE IF aVal.k # "number" THEN Err("mismatch", rv)
    ELSE LET set(dec) == IF ~dec.ok THEN Err("parse", rv)
                         ELSE Ok(GoNullDecimal(dec.v, TRUE))
         IN  set(NewFromString(aVal.n))

\* convertRegoNumberToDecimal
convertRegoNumberToDecimal(aVal, rv) ==
    IF aVal.k # "number" THEN Err("mismatch", rv)
    ELSE LET set(dec) == IF ~dec.ok THEN Err("parse", rv) ELSE Ok(GoDecimal(dec.v))
         IN  set(NewFromString(aVal.n))

\* the time.Time branch of assignRegoValueToGo
assignTime(aVal, rv) ==
    IF aVal.k # "string" THEN Err("mismatch", rv)
    ELSE LET set(parsed) == IF ~parsed.ok THEN Err("parse", rv) ELSE Ok(GoTime(parsed.v))
         IN  set(TimeParse(DefaultTimeFormat, aVal.s))

\* the pointee written by a *T branch: the pointer is allocated when nil,
\* before the value is looked at, and stays allocated when the branch fails
ThroughPtr(rv, inner) ==
    [st |-> inner.st, err |-> inner.err, rv |-> GoPtr(rv.t, inner.rv)]

Pointee(rv) == IF rv.nil THEN Zero(rv.t.elem) ELSE rv.p

\* convertRegoValueToInterface: the interface{} built for a value
RECURSIVE convertRegoValueToInterface(_)
RECURSIVE ifaceElems(_, _)
RECURSIVE ifaceEntries(_, _)
convertRegoValueToInterface(aVal) ==
    IF aVal.k = "null" THEN Ok(GoNil(TAny))
    ELSE IF aVal.k = "boolean" THEN Ok(GoIface(TAny, GoBool(TBool, aVal.b)))
    ELSE IF aVal.k = "string" THEN Ok(GoIface(TAny, GoString(TString, aVal.s)))
    ELSE IF aVal.k = "number"
    THEN LET number(f) == IF ~f.ok THEN Err("parse", GoNil(TAny))
                          ELSE Ok(GoIface(TAny, GoFloat(TFloat64, f.v)))
         IN  number(ParseFloat(aVal.n))
    ELSE IF aVal.k = "array"
    THEN LET slice(r) == IF r.st # "ok" THEN Err(r.err, GoNil(TAny))
                         ELSE Ok(GoIface(TAny, GoSlice(SliceOf(TAny), r.rv)))
         IN  slice(ifaceElems(aVal.elems, <<>>))
    ELSE IF aVal.k = "object"
    THEN LET map(r) == IF r.st # "ok" THEN Err(r.err, GoNil(TAny))
                       ELSE Ok(GoIface(TAny, GoMap(MapOf(TString, TAny), r.rv)))
         IN  map(ifaceEntries(aVal.ents, {}))
    ELSE Err("unsupported", GoNil(TAny))

\* the Foreach of the *ast.Array case: rest is still to visit
ifaceElems(rest, result) ==
    IF Len(rest) = 0 THEN Ok(result)
    ELSE LET elem(r) == IF r.st # "ok" THEN Err(r.err, result)
                        ELSE ifaceElems(Tail(rest), Append(result, r.rv))
         IN  elem(convertRegoValueToInterface(rest[1]))

\* the Foreach of the ast.Object case
ifaceEntries(rest, result) ==
    IF Len(rest) = 0 THEN Ok(result)
    ELSE IF rest[1].key.k # "string" THEN Err("keytype", result)
    ELSE LET entry(r) ==
                 IF r.st # "ok" THEN Err(r.err, result)
                 ELSE ifaceEntries(Tail(rest),
                                   MapPut(result, GoString(TString, rest[1].key.s), r.rv))
         IN  entry(convertRegoValueToInterface(rest[1].val))

RECURSIVE assignRegoValueToGo(_, _)
RECURSIVE convertRegoObjectToStruct(_, _)
RECURSIVE structFields(_, _, _)

\* reflect.Value.Set of an interface{} into a target of interface type rt:
\* a value that does not implement rt's methods is not assignable
SetIface(rv, val) ==
    IF rv.t.methods = {} THEN Ok([val EXCEPT !.t = rv.t]) ELSE Panic(rv)

\* a Null branch that leaves every target at its zero value
NullIntoZero(rv) == Ok(Zero(rv.t))

\* the Null branch of assignRegoValueToGo
NullInto(rv) ==
    IF rv.t.kind \in {"ptr", "slice", "map", "interface"}
    THEN Ok(GoNil(rv.t))
    ELSE Err("null", rv)

\* assignRegoValueToGo
assignRegoValueToGo(aVal, rv) ==
    LET rt == rv.t
    IN  IF rt = TNullDecimal THEN convertRegoToNullDecimal(aVal, rv)
        ELSE IF rt.kind = "ptr" /\ rt.elem = TNullDecimal
        THEN ThroughPtr(rv, convertRegoToNullDecimal(aVal, Pointee(rv)))
        ELSE IF aVal.k = "null" THEN NullInto(rv)
        ELSE IF rt = TDecimal THEN convertRegoNumberToDecimal(aVal, rv)
        ELSE IF rt.kind = "ptr" /\ rt.elem = TDecimal
        THEN ThroughPtr(rv, convertRegoNumberToDecimal(aVal, Pointee(rv)))
        ELSE IF rt = TTime THEN assignTime(aVal, rv)
        ELSE IF rt.kind = "ptr" /\ rt.elem = TTime
        THEN ThroughPtr(rv, assignTime(aVal, Pointee(rv)))
        ELSE IF rt.kind = "string"
        THEN IF aVal.k # "string" THEN Err("mismatch", rv)
             ELSE Ok(GoString(rt, aVal.s))
        ELSE IF rt.kind = "bool"
        THEN IF aVal.k # "boolean" THEN Err("mismatch", rv)
             ELSE Ok(GoBool(rt, aVal.b))
        ELSE IF rt.kind \in SignedKinds \cup UnsignedKinds \cup FloatKinds
        THEN IF aVal.k # "number" THEN Err("mismatch", rv)
             ELSE parseRegoNumberInto(rv, aVal.n)
        ELSE IF rt.kind = "struct"
        THEN IF aVal.k # "object" THEN Err("mismatch", rv)
             ELSE convertRegoObjectToStruct(aVal, rv)
        ELSE IF rt.kind = "interface"
        THEN LET set(r) == IF r.st # "ok" THEN Err(r.err, rv) ELSE SetIface(rv, r.rv)
             IN  set(convertRegoValueToInterface(aVal))
        ELSE Err("unsupported", rv)

\* convertRegoObjectToStruct
convertRegoObjectToStruct(aVal, rv) ==
    IF aVal.k # "object" THEN Err("mismatch", rv)
    ELSE IF rv.t.kind # "struct" THEN Err("unsupported", rv)
    ELSE structFields(aVal, rv, 1)

\* a loop over the fields that fails on the first exported field whose key
\* the object lacks
structFieldsStrict(obj, rv, i) ==
    IF i > Len(rv.t.fields) THEN Ok(rv)
    ELSE LET sf == rv.t.fields[i]
             assigned(r) ==
                 IF r.st = "ok"
                 THEN structFields(obj, [rv EXCEPT !.fields[i] = r.rv], i + 1)
                 ELSE [r EXCEPT !.rv = [rv EXCEPT !.fields[i] = r.rv]]
             field(term) ==
                 IF ~sf.exported THEN structFields(obj, rv, i + 1)
                 ELSE IF ~term.found THEN Err("missing", rv)
                 ELSE assigned(assignRegoValueToGo(term.val, rv.fields[i]))
         IN  field(ObjGet(obj, String(getStructFieldKey(sf))))

\* the loop of convertRegoObjectToStruct over the fields from i on
structFields(obj, rv, i) ==
    IF i > Len(rv.t.fields) THEN Ok(rv)
    ELSE LET sf == rv.t.fields[i]
             \* r is what assignRegoValueToGo returned for rv.Field(i)
             assigned(r) ==
                 IF r.st = "ok"
                 THEN structFields(obj, [rv EXCEPT !.fields[i] = r.rv], i + 1)
                 ELSE [r EXCEPT !.rv = [rv EXCEPT !.fields[i] = r.rv]]
             \* term is what obj.Get returned for the field's key
             field(term) ==
                 IF ~sf.exported \/ ~term.found THEN structFields(obj, rv, i + 1)
                 ELSE assigned(assignRegoValueToGo(term.val, rv.fields[i]))
         IN  field(ObjGet(obj, String(getStructFieldKey(sf))))

\* the Foreach of convertRegoArrayToSlice: element i of arr into rv.Index(i)
RECURSIVE sliceElems(_, _, _)
sliceElems(arr, rv, i) ==
    IF i > Len(arr.elems) THEN Ok(rv)
    ELSE LET assigned(r) ==
                 IF r.st = "ok" THEN sliceElems(arr, [rv EXCEPT !.elems[i] = r.rv], i + 1)
                 ELSE [r EXCEPT !.rv = [rv EXCEPT !.elems[i] = r.rv]]
         IN  assigned(assignRegoValueToGo(arr.elems[i], rv.elems[i]))

\* convertRegoArrayToSlice
convertRegoArrayToSlice(aVal, rv) ==
    IF aVal.k # "array" THEN Err("mismatch", rv)
    ELSE LET length == Len(aVal.elems)
         IN  IF rv.t.kind = "array"
             THEN IF length > rv.t.len THEN Err("length", rv)
                  ELSE sliceElems(aVal, rv, 1)
             ELSE IF rv.t.kind = "slice"
             THEN sliceElems(aVal,
                             GoSlice(rv.t, [i \in 1..length |-> Zero(rv.t.elem)]), 1)
             ELSE Err("unsupported", rv)

\* reflect.Value.SetMapIndex: the key has to be assignable to the key type
SetMapIndex(rv, key, val) ==
    IF key.t = rv.t.key
    THEN Ok(GoMap(rv.t, MapPut(Ents(rv), key, val)))
    ELSE Panic(rv)

\* the Foreach of the ast.Set branch of convertRegoObjectOrSetToMap
RECURSIVE setMembers(_, _)
setMembers(rest, rv) ==
    IF Len(rest) = 0 THEN Ok(rv)
    ELSE IF rest[1].k # "string" THEN Err("mismatch", rv)
    ELSE LET put(r) == IF r.st = "ok" THEN setMembers(Tail(rest), r.rv) ELSE r
         IN  put(SetMapIndex(rv, GoString(TString, rest[1].s), Zero(TEmptyStruct)))

\* the Foreach of the ast.Object branch of convertRegoObjectOrSetToMap
RECURSIVE mapEntries(_, _)
mapEntries(rest, rv) ==
    IF Len(rest) = 0 THEN Ok(rv)
    ELSE IF rest[1].key.k # "string" THEN Err("keytype", rv)
    ELSE LET put(r) == IF r.st = "ok" THEN mapEntries(Tail(rest), r.rv) ELSE r
             entry(newKey, newVal) ==
                 IF newKey.st # "ok" THEN [newKey EXCEPT !.rv = rv]
                 ELSE IF newVal.st # "ok" THEN [newVal EXCEPT !.rv = rv]
                 ELSE put(SetMapIndex(rv, newKey.rv, newVal.rv))
         IN  entry(assignRegoValueToGo(rest[1].key, Zero(rv.t.key)),
                   assignRegoValueToGo(rest[1].val, Zero(rv.t.elem)))

\* rv.Set(reflect.MakeMap(rv.Type())) when rv.IsNil()
MakeIfNil(rv) == IF rv.nil THEN GoMap(rv.t, {}) ELSE rv

\* convertRegoObjectOrSetToMap
convertRegoObjectOrSetToMap(aVal, rv) ==
    IF aVal.k = "set"
    THEN IF rv.t.key.kind # "string" \/ rv.t.elem # TEmptyStruct
         THEN Err("mismatch", MakeIfNil(rv))
         ELSE setMembers(aVal.mem, MakeIfNil(rv))
    ELSE IF aVal.k # "object" THEN Err("mismatch", rv)
    ELSE mapEntries(aVal.ents, MakeIfNil(rv))

\* RegoToGo[T]: on an error the variable zero is returned, and zero is the
\* variable the reflect.Value rv writes through
RegoToGo(T, val) ==
    LET zero == Zero(T)
        pointer(r) == IF r.st = "ok" THEN Ok(GoPtr(T, r.rv)) ELSE [r EXCEPT !.rv = zero]
    IN  IF T.kind = "interface" THEN Err("notype", zero)
        ELSE IF T = TTime \/ T = TDecimal THEN assignRegoValueToGo(val, zero)
        ELSE IF T.kind = "struct" THEN convertRegoObjectToStruct(val, zero)
        ELSE IF T.kind \in {"slice", "array"} THEN convertRegoArrayToSlice(val, zero)
        ELSE IF T.kind = "map" THEN convertRegoObjectOrSetToMap(val, zero)
        ELSE IF T.kind = "ptr"
        THEN IF val.k = "null" THEN Ok(GoNil(T))
             ELSE pointer(assignRegoValueToGo(val, Zero(T.elem)))
        ELSE assignRegoValueToGo(val, zero)

(***************************************************************************)
(* The encoder, GoToRego and goValueToAst.  The outcome carries the        *)
(* ast.Value in rv.                                                        *)
(***************************************************************************)
\* int(rv.Int()): int is 64 bits wide on the builds the library targets
\* (amd64, arm64), where the conversion from int64 keeps every value
IntCast(i) == i

RECURSIVE goValueToAst(_)
RECURSIVE astElems(_, _)
RECURSIVE astFields(_, _, _)

\* the values of a map's entries, each converted
MapConverted(rv) == {Item(e.key, goValueToAst(e.val)) : e \in Ents(rv)}

\* a map loop that returns after its first entry
InsertFirst(obj, ents) ==
    IF ents = {} THEN obj
    ELSE LET e == CHOOSE x \in ents : TRUE
         IN  ObjInsert(obj, String(e.key.s), e.val.rv)

\* obj.Insert of every entry of a set of converted [key, val], in any order
RECURSIVE InsertAll(_, _)
InsertAll(obj, ents) ==
    IF ents = {} THEN obj
    ELSE LET e == CHOOSE x \in ents : TRUE
         IN  InsertAll(ObjInsert(obj, String(e.key.s), e.val.rv), ents \ {e})

\* goValueToAst
goValueToAst(rv) ==
    LET rt == rv.t
    IN  IF rt = TNullDecimal
        THEN IF ~rv.fields[2].b THEN Ok(Null)
             ELSE Ok(Number(DecimalString(rv.fields[1].d)))
        ELSE IF rt = TDecimal THEN Ok(Number(DecimalString(rv.d)))
        ELSE IF rt = TTime THEN Ok(String(TimeFormat(DefaultTimeFormat, rv.tm)))
        ELSE IF rt.kind = "bool" THEN Ok(Boolean(rv.b))
        ELSE IF rt.kind = "string" THEN Ok(String(rv.s))
        ELSE IF rt.kind \in SignedKinds THEN Ok(Number(FormatInt(IntCast(rv.i))))
        ELSE IF rt.kind \in UnsignedKinds THEN Ok(Number(FormatUint(rv.i)))
        ELSE IF rt.kind \in FloatKinds THEN Ok(Number(FormatFloat(rv.f)))
        ELSE IF rt.kind = "interface"
        THEN IF rv.nil THEN Ok(Null) ELSE goValueToAst(rv.dyn)
        ELSE IF rt.kind = "ptr"
        THEN IF rv.nil THEN Ok(Null) ELSE goValueToAst(rv.p)
        ELSE IF rt.kind \in {"slice", "array"} THEN astElems(Elems(rv), <<>>)
        ELSE IF rt.kind = "map"
        THEN LET entries(conv) ==
                     IF Ents(rv) # {} /\ rt.key.kind # "string" THEN Err("keytype", Null)
                     ELSE IF \E e \in conv : e.val.st # "ok"
                     THEN Err((CHOOSE e \in conv : e.val.st # "ok").val.err, Null)
                     ELSE Ok(InsertAll(Object(<<>>), conv))
             IN  entries(MapConverted(rv))
        ELSE IF rt.kind = "struct" THEN astFields(rv, 1, Object(<<>>))
        ELSE Err("unsupported", Null)

\* the loop of the slice/array branch over the elements still to convert
astElems(rest, arr) ==
    IF Len(rest) = 0 THEN Ok(Array(arr))
    ELSE LET elem(r) == IF r.st # "ok" THEN Err(r.err, Null)
                        ELSE astElems(Tail(rest), Append(arr, r.rv))
         IN  elem(goValueToAst(rest[1]))

\* the loop of the struct branch over the fields from i on
astFields(rv, i, obj) ==
    IF i > Len(rv.t.fields) THEN Ok(obj)
    ELSE LET sf == rv.t.fields[i]
             key == getStructFieldKey(sf)
         IN  IF ~sf.exported \/ key = "" THEN astFields(rv, i + 1, obj)
             ELSE LET field(r) ==
                          IF r.st # "ok" THEN Err(r.err, Null)
                          ELSE astFields(rv, i + 1, ObjInsert(obj, String(key), r.rv))
                  IN  field(goValueToAst(rv.fields[i]))

\* GoToRego: x is an interface{}; a nil interface is Null, and an interface
\* value handed in arrives as the value it holds
GoToRego(x) ==
    IF x.t.kind = "interface"
    THEN IF x.nil THEN Ok(Null) ELSE goValueToAst(x.dyn)
    ELSE goValueToAst(x)

(***************************************************************************)
(* The function adapters.  convert.FnWrapN decodes with RegoToGo and       *)
(* encodes with GoToRego; builtin.AdapterN decodes with ast.As and encodes *)
(* with toTerm.  The arities differ only in the number of positions, so    *)
(* one operator stands for fnWrap1Convert..fnWrap5Convert and one for      *)
(* convertArgs1..convertArgs5, the arity being the length of types.        *)
(* The wrapped function is an input: fn.err says whether it returns an     *)
(* error, fn.res is the value it returns.                                  *)
(***************************************************************************)
NoTerm == [k |-> "nil"]

RECURSIVE decodeFrom(_, _, _, _)

\* a conversion that goes on to the later positions after a failure
decodeFromEager(types, terms, i, vals) ==
    IF i > Len(types) THEN [st |-> "ok", err |-> "", vals |-> vals, tried |-> i - 1]
    ELSE IF i > Len(terms)
    THEN [st |-> "panic", err |-> "panic", vals |-> vals, tried |-> i - 1]
    ELSE LET decoded(r) ==
                 IF r.st # "ok"
                 THEN [st |-> r.st, err |-> r.err, vals |-> vals, tried |-> Len(types)]
                 ELSE decodeFrom(types, terms, i + 1, Append(vals, r.rv))
         IN  decoded(RegoToGo(types[i], terms[i]))

\* the positions from i on, decoded in order; terms[i] beyond the end of
\* terms is an index out of range
decodeFrom(types, terms, i, vals) ==
    IF i > Len(types) THEN [st |-> "ok", err |-> "", vals |-> vals, tried |-> i - 1]
    ELSE IF i > Len(terms)
    THEN [st |-> "panic", err |-> "panic", vals |-> vals, tried |-> i - 1]
    ELSE LET decoded(r) ==
                 IF r.st # "ok"
                 THEN [st |-> r.st, err |-> r.err, vals |-> vals, tried |-> i]
                 ELSE decodeFrom(types, terms, i + 1, Append(vals, r.rv))
         IN  decoded(RegoToGo(types[i], terms[i]))

\* the length check off by one: len(terms) < N-1
TooFewOffByOne(n, terms) == Len(terms) < n - 1

\* the check len(terms) < N of fnWrapNConvert and convertArgsN
TooFew(n, terms) == Len(terms) < n

\* fnWrapNConvert
fnWrapConvert(types, terms) ==
    IF TooFew(Len(types), terms)
    THEN [st |-> "err", err |-> "arity", vals |-> <<>>, tried |-> 0]
    ELSE decodeFrom(types, terms, 1, <<>>)

AdapterReturn(st, err, term, called, tried, encoded) ==
    [st |-> st, err |-> err, term |-> term, called |-> called, tried |-> tried,
     encoded |-> encoded]

\* an adapter that wraps the function's error in an error of its own
FnWrapWrapping(types, valueForm, fn, terms) ==
    LET encoded(e, tried) ==
            IF e.st # "ok" THEN AdapterReturn(e.st, e.err, NoTerm, TRUE, tried, TRUE)
            ELSE AdapterReturn("ok", "", e.rv, TRUE, tried, TRUE)
        converted(c) ==
            IF c.st # "ok" THEN AdapterReturn(c.st, c.err, NoTerm, FALSE, c.tried, FALSE)
            ELSE IF fn.err THEN AdapterReturn("err", "wrapped", NoTerm, TRUE, c.tried, FALSE)
            ELSE IF ~valueForm THEN AdapterReturn("ok", "", Null, TRUE, c.tried, FALSE)
            ELSE encoded(GoToRego(fn.res), c.tried)
    IN  converted(fnWrapConvert(types, terms))

\* FnWrapN (valueForm) and FnWrapN_ (effect-only); the error "host" is the
\* error value the wrapped function returned
FnWrap(types, valueForm, fn, terms) ==
    LET \* e is what GoToRego returned for the function's result
        encoded(e, tried) ==
            IF e.st # "ok" THEN AdapterReturn(e.st, e.err, NoTerm, TRUE, tried, TRUE)
            ELSE AdapterReturn("ok", "", e.rv, TRUE, tried, TRUE)
        \* c is what fnWrapNConvert returned
        converted(c) ==
            IF c.st # "ok" THEN AdapterReturn(c.st, c.err, NoTerm, FALSE, c.tried, FALSE)
            ELSE IF fn.err THEN AdapterReturn("err", "host", NoTerm, TRUE, c.tried, FALSE)
            ELSE IF ~valueForm THEN AdapterReturn("ok", "", Null, TRUE, c.tried, FALSE)
            ELSE encoded(GoToRego(fn.res), c.tried)
    IN  converted(fnWrapConvert(types, terms))

\* the positions from i on, each decoded by ast.As; asOk[i] is whether
\* ast.As accepts the term at position i for the parameter type
RECURSIVE asFrom(_, _, _, _)
asFrom(n, terms, asOk, i) ==
    IF i > n THEN [st |-> "ok", err |-> "", tried |-> i - 1]
    ELSE IF i > Len(terms) THEN [st |-> "panic", err |-> "panic", tried |-> i - 1]
    ELSE IF ~asOk[i] THEN [st |-> "err", err |-> "as", tried |-> i]
    ELSE asFrom(n, terms, asOk, i + 1)

\* convertArgsN
convertArgs(n, terms, asOk) ==
    IF TooFew(n, terms) THEN [st |-> "err", err |-> "arity", tried |-> 0]
    ELSE asFrom(n, terms, asOk, 1)

\* isNil
isNil(v) ==
    IF v.t.kind \in {"ptr", "slice", "map", "func", "chan", "interface"}
    THEN v.nil ELSE FALSE

\* the ast.Value ast.InterfaceToValue builds for a Go value
External(v) == [k |-> "external", from |-> v]

\* toTerm; itvOk is whether ast.InterfaceToValue accepts the value
toTerm(res, itvOk) ==
    IF isNil(res) THEN [st |-> "ok", err |-> "", rv |-> Null]
    ELSE IF ~itvOk THEN [st |-> "err", err |-> "external", rv |-> NoTerm]
    ELSE [st |-> "ok", err |-> "", rv |-> External(res)]

\* AdapterN (valueForm) and AdapterN_ (effect-only)
Adapter(n, valueForm, fn, terms, asOk, itvOk) ==
    LET c == convertArgs(n, terms, asOk)
    IN  IF c.st # "ok" THEN AdapterReturn(c.st, c.err, NoTerm, FALSE, c.tried, FALSE)
        ELSE IF fn.err THEN AdapterReturn("err", "host", NoTerm, TRUE, c.tried, FALSE)
        ELSE IF ~valueForm THEN AdapterReturn("ok", "", Null, TRUE, c.tried, FALSE)
        ELSE LET t == toTerm(fn.res, itvOk)
             IN  AdapterReturn(t.st, t.err, t.rv, TRUE, c.tried, TRUE)

(***************************************************************************)
(* The inputs of the model: target types, Rego values and Go values.       *)
(***************************************************************************)
\* struct { A string; B int }
TPerson ==
    StructOf("Person", <<Field("A", TRUE, NoTag, TString), Field("B", TRUE, NoTag, TInt)>>)
\* struct { A string `json:"a"`; B string `json:"-"`; c string; D string `json:",omitempty"` }
TTagged ==
    StructOf("Tagged",
             <<Field("A", TRUE, JsonTag("a"), TString), Field("B", TRUE, JsonTag("-"), TString),
               Field("c", FALSE, NoTag, TString), Field("D", TRUE, JsonTag(""), TString)>>)
\* struct { A []string; B *string }
TNested ==
    StructOf("Nested",
             <<Field("A", TRUE, NoTag, SliceOf(TString)),
               Field("B", TRUE, NoTag, PtrTo(TString))>>)
\* struct { A T }: the struct that holds a field of type T under key "A"
Holder(T) == StructOf("Holder", <<Field("A", TRUE, NoTag, T)>>)

ScalarTypes ==
    { TBool, TString, TMyKey, TInt, TInt8, TInt16, TInt32, TInt64, TUint, TUint8,
      TUint16, TUint32, TUint64, TFloat32, TFloat64 }

\* map[string]struct{}
TStringSet == MapOf(TString, TEmptyStruct)

Types ==
    ScalarTypes \cup
    { TDecimal, TNullDecimal, TTime, TAny, TStringer, TEmptyStruct, TPerson, TTagged,
      TNested, FuncType, ChanType,
      PtrTo(TString), PtrTo(TInt), PtrTo(TDecimal), PtrTo(TNullDecimal), PtrTo(TTime),
      PtrTo(TPerson), PtrTo(SliceOf(TString)),
      SliceOf(TString), SliceOf(TInt8), SliceOf(TAny), ArrayOf(2, TString),
      TStringSet, MapOf(TMyKey, TEmptyStruct), MapOf(TString, TString),
      MapOf(TMyKey, TString), MapOf(TInt, TString), MapOf(TString, TInt),
      MapOf(TString, TAny), MapOf(TString, TStringer) }

NumberTexts ==
    { <<"0">>, <<"4", "2">>, <<"-", "7">>, <<"1", "0", "0">>, <<"1", "2", "7">>,
      <<"1", "2", "8">>, <<"-", "1", "2", "9">>, <<"3", "0", "0">>,
      <<"6", "5", "5", "3", "6">>,
      <<"4", "2", "9", "4", "9", "6", "7", "2", "9", "6">>,
      <<"9", "2", "2", "3", "3", "7", "2", "0", "3", "6", "8", "5", "4", "7", "7", "5",
        "8", "0", "8">>,
      <<"1", "8", "4", "4", "6", "7", "4", "4", "0", "7", "3", "7", "0", "9", "5", "5",
        "1", "6", "1", "6">>,
      <<"1", ".", "5">>, <<"0", ".", "1">>, <<"1", "e", "3", "9">>, <<"a", "b", "c">> }

AString == "2025-02-16T12:34:56Z"

Values ==
    { Null, Boolean(TRUE), Boolean(FALSE), String("a"), String("foo"), String(AString) }
    \cup { Number(n) : n \in NumberTexts }
    \cup { Array(<<>>), Array(<<String("a")>>), Array(<<String("a"), Number(<<"1">>)>>),
           Array(<<String("a"), String("b"), String("foo")>>), Array(<<Null>>),
           Array(<<Number(<<"4", "2">>), Number(<<"3", "0", "0">>)>>),
           Object(<<>>),
           Object(<<Item(String("A"), String("a"))>>),
           Object(<<Item(String("A"), String("a")), Item(String("B"), Number(<<"4", "2">>))>>),
           Object(<<Item(String("A"), String("a")), Item(String("B"), String("b"))>>),
           Object(<<Item(String("A"), Null)>>),
           Object(<<Item(String("A"), String("a")), Item(String("a"), Number(<<"1">>))>>),
           Object(<<Item(String("A"), Array(<<String("a")>>)), Item(String("B"), String("b"))>>),
           Object(<<Item(String(""), String("b")), Item(String("a"), String("foo"))>>),
           Object(<<Item(String("a"), Number(<<"1">>)), Item(String("b"), String("foo"))>>),
           Object(<<Item(Number(<<"1">>), String("a"))>>),
           Object(<<Item(String("bar"), Object(<<>>)), Item(String("foo"), Object(<<>>))>>),
           Set(<<>>), Set(<<String("bar"), String("foo")>>),
           Set(<<Number(<<"1">>), String("a")>>),
           Set(<<String("a"), Array(<<>>)>>) }

Big(neg, mag) == BigInt(neg, mag)

\* the integers of the model, by kind: zero, a middle value and both ends
IntsOf(kind) ==
    CASE kind = "int8" -> {BigZero, Big(TRUE, <<7>>), MinInt8, MaxInt8}
      [] kind = "int16" -> {BigZero, Big(FALSE, <<3, 0, 0>>), MinInt16, MaxInt16}
      [] kind = "int32" -> {BigZero, Big(TRUE, <<7>>), MinInt32, MaxInt32}
      [] kind \in {"int", "int64"} -> {BigZero, Big(FALSE, <<4, 2>>), MinInt64, MaxInt64}
      [] kind = "uint8" -> {BigZero, Big(FALSE, <<4, 2>>), MaxUint8}
      [] kind = "uint16" -> {BigZero, MaxUint16}
      [] kind = "uint32" -> {BigZero, MaxUint32}
      [] kind \in {"uint", "uint64"} -> {BigZero, Big(FALSE, <<4, 2>>), MaxUint64}

Keyed(t, ks) == GoMap(t, {Item(GoString(t.key, k), Zero(t.elem)) : k \in ks})

ScalarValues ==
    { GoBool(TBool, TRUE), GoBool(TBool, FALSE), GoString(TString, ""),
      GoString(TString, "foo"), GoString(TMyKey, "a") }
    \cup UNION { {GoInt(Scalar(k), i) : i \in IntsOf(k)} : k \in SignedKinds \cup UnsignedKinds }
    \cup { GoFloat(TFloat64, f) : f \in Float64s }
    \cup { GoFloat(TFloat32, f) : f \in Float32s }

NilValues ==
    { GoNil(PtrTo(TString)), GoNil(PtrTo(TTime)), GoNil(PtrTo(TPerson)),
      GoNil(SliceOf(TString)), GoNil(SliceOf(TInt8)), GoNil(MapOf(TString, TString)),
      GoNil(TStringSet), GoNil(MapOf(TInt, TString)), GoNil(TAny), GoNil(TStringer),
      GoNil(FuncType), GoNil(ChanType) }

StringSetValues ==
    { GoNil(TStringSet), Keyed(TStringSet, {}), Keyed(TStringSet, {"foo"}),
      Keyed(TStringSet, {"foo", "bar"}), Keyed(TStringSet, {"a", "b", "foo"}) }

\* the decimals of the model: 0, 123.45, -1.5, 100 held as 1e2, 0.005,
\* 0.0000001, 0.1, and 12345678901234567890.12345, which no float64 holds
Decimals ==
    { DecimalZero, MkDecimal(FALSE, <<1, 2, 3, 4, 5>>, 0 - 2),
      MkDecimal(TRUE, <<1, 5>>, 0 - 1), MkDecimal(FALSE, <<1>>, 2),
      MkDecimal(FALSE, <<5>>, 0 - 3), MkDecimal(FALSE, <<1>>, 0 - 7),
      MkDecimal(FALSE, <<1>>, 0 - 1),
      MkDecimal(FALSE, <<1, 2, 3, 4, 5, 6, 7, 8, 9, 0, 1, 2, 3, 4, 5, 6, 7, 8, 9, 0,
                         1, 2, 3, 4, 5>>, 0 - 5) }

GoValues ==
    ScalarValues \cup NilValues \cup StringSetValues \cup
    { GoDecimal(d) : d \in Decimals } \cup
    { GoTime("t1"),
      GoNullDecimal(DecimalZero, FALSE),
      GoNullDecimal(MkDecimal(TRUE, <<1, 5>>, 0 - 1), TRUE),
      GoRef(FuncType), GoRef(ChanType),
      GoPtr(PtrTo(TString), GoString(TString, "foo")),
      GoIface(TAny, GoString(TString, "foo")),
      GoIface(TAny, GoNil(SliceOf(TString))),
      GoSlice(SliceOf(TString), <<>>),
      GoSlice(SliceOf(TString), <<GoString(TString, "a"), GoString(TString, "b")>>),
      GoSlice(SliceOf(PtrTo(TString)), <<GoNil(PtrTo(TString))>>),
      GoSlice(SliceOf(SliceOf(TString)), <<GoNil(SliceOf(TString))>>),
      GoArray(ArrayOf(2, TString), <<GoString(TString, "a"), GoString(TString, "")>>),
      Keyed(MapOf(TMyKey, TEmptyStruct), {"a"}),
      GoMap(MapOf(TString, TString), {Item(GoString(TString, "a"), GoString(TString, "foo"))}),
      GoMap(MapOf(TString, FuncType), {Item(GoString(TString, "a"), GoRef(FuncType))}),
      GoMap(MapOf(TInt, TString), {}),
      GoMap(MapOf(TInt, TString), {Item(GoInt(TInt, BigZero), GoString(TString, "a"))}),
      GoStruct(TPerson, <<GoString(TString, "a"), GoInt(TInt, Big(FALSE, <<4, 2>>))>>),
      GoStruct(TTagged, <<GoString(TString, "a"), GoString(TString, "b"),
                          GoString(TString, "foo"), GoString(TString, "bar")>>),
      GoStruct(TNested, <<GoNil(SliceOf(TString)), GoNil(PtrTo(TString))>>),
      GoStruct(TEmptyStruct, <<>>) }

\* what a wrapped function returns
HostResults ==
    { GoString(TString, "foo"), GoBool(TBool, TRUE), GoRef(FuncType),
      GoSlice(SliceOf(TString), <<GoString(TString, "a")>>) } \cup NilValues

HostOutcomes == [err : BOOLEAN, res : HostResults]

ArgTypes == {TString, TInt8}
ArgValues == {String("a"), Number(<<"4", "2">>)}

RECURSIVE SeqsUpTo(_, _)
\* the sequences over S of length at most n
SeqsUpTo(S, n) ==
    IF n = 0 THEN {<<>>}
    ELSE LET shorter == SeqsUpTo(S, n - 1)
         IN  shorter \cup {Append(q, x) : q \in {r \in shorter : Len(r) = n - 1}, x \in S}

(***************************************************************************)
(* Module parsing, internal/module/parse.go.  A module is what             *)
(* ast.ParseModule built: the import paths, each an ast.Ref given as its   *)
(* sequence of segments, and the rules.  A rule keeps of its head the      *)
(* reference (Head.Ref().String(), "" for a nil reference), the number of  *)
(* arguments, and the key: "nil" without one, "if" for the string "if",    *)
(* "other" for any other term.  Text is a sequence of tokens: segments     *)
(* and the separators between them.                                        *)
(***************************************************************************)
\* the segments ast.Ref.String() prints after a dot: identifiers
Idents == {"data", "regobrick", "default_false", "x", "input"}

\* strings.Split(importPath, "."): the segments between the "." tokens;
\* cur is the segment being read
RECURSIVE Split(_, _)
Split(importPath, cur) ==
    IF Len(importPath) = 0 THEN <<cur>>
    ELSE IF importPath[1] = "." THEN <<cur>> \o Split(Tail(importPath), "")
    ELSE Split(Tail(importPath), importPath[1])

\* ast.Ref.String(): the head as it is, each later segment after a dot when
\* it is an identifier and in brackets and quotes when it is not
RECURSIVE refTail(_)
refTail(segs) ==
    IF Len(segs) = 0 THEN <<>>
    ELSE IF segs[1] \in Idents THEN <<".", segs[1]>> \o refTail(Tail(segs))
    ELSE <<"[\"", segs[1], "\"]">> \o refTail(Tail(segs))

RefString(ref) == IF Len(ref) = 0 THEN <<>> ELSE <<ref[1]>> \o refTail(Tail(ref))

Module(imports, rules) == [imports |-> imports, rules |-> rules]

Rule(ref, default, args, key, value) ==
    [ref |-> ref, default |-> default, args |-> args, key |-> key, value |-> value]

\* addImport
addImport(mod, importPath) ==
    IF importPath = <<>> THEN mod
    ELSE [mod EXCEPT !.imports = Append(@, Split(importPath, ""))]

\* the loop of ParseModule over the extra imports
RECURSIVE addImports(_, _)
addImports(mod, imports) ==
    IF Len(imports) = 0 THEN mod
    ELSE addImports(addImport(mod, imports[1]), Tail(imports))

\* a test for the feature that finds it in every module
hasRegobrickFeatureAlways(mod, feature) == TRUE

\* hasRegobrickFeature
hasRegobrickFeature(mod, feature) ==
    \E i \in 1..Len(mod.imports) :
        RefString(mod.imports[i]) = <<"data", ".", "regobrick", ".", feature>>

\* a first loop that finds no default rule
existingDefaultsNone(rules) == {}

\* the first loop of addDefaultFalse: the references that have a default rule
existingDefaults(rules) == {rules[i].ref : i \in {j \in 1..Len(rules) : rules[j].default}}

\* a test that takes no rule for a function rule
isFunctionNever(r) == FALSE

\* len(r.Head.Args) > 0
isFunction(r) == r.args > 0

\* isIfRule in addDefaultFalse: the key is the string "if", or there is none
isIfRule(r) == r.key \in {"if", "nil"}

\* the default rule addDefaultFalse builds
newRule(refVal) == Rule(refVal, TRUE, 0, "nil", "false")

RECURSIVE defaultsFrom(_, _, _, _)

\* a loop that does not record the defaults it appends
defaultsFromForgetful(rules, i, existing, out) ==
    IF i > Len(rules) THEN out
    ELSE IF isFunction(rules[i]) \/ ~isIfRule(rules[i]) \/ rules[i].ref = ""
            \/ rules[i].ref \in existing
    THEN defaultsFrom(rules, i + 1, existing, out)
    ELSE defaultsFrom(rules, i + 1, existing, Append(out, newRule(rules[i].ref)))

\* the second loop of addDefaultFalse from rule i on: rules is mod.Rules as
\* the range statement read it, out is mod.Rules as appended to so far
defaultsFrom(rules, i, existing, out) ==
    IF i > Len(rules) THEN out
    ELSE IF isFunction(rules[i]) \/ ~isIfRule(rules[i]) \/ rules[i].ref = ""
            \/ rules[i].ref \in existing
    THEN defaultsFrom(rules, i + 1, existing, out)
    ELSE defaultsFrom(rules, i + 1, existing \cup {rules[i].ref},
                      Append(out, newRule(rules[i].ref)))

\* addDefaultFalse
addDefaultFalse(mod) ==
    [mod EXCEPT !.rules = defaultsFrom(@, 1, existingDefaults(@), @)]

\* a ParseModule that answers a failed parse with an empty module
ParseModuleLenient(parsed, imports) ==
    LET transformed(mod) ==
            IF hasRegobrickFeature(mod, "default_false") THEN addDefaultFalse(mod)
            ELSE mod
    IN  [st |-> "ok", err |-> "",
         mod |-> IF parsed.ok THEN transformed(addImports(parsed.mod, imports))
                 ELSE Module(<<>>, <<>>)]

\* ParseModule; parsed is what ast.ParseModule returned for the source
ParseModule(parsed, imports) ==
    IF ~parsed.ok THEN [st |-> "err", err |-> "parse", mod |-> Module(<<>>, <<>>)]
    ELSE LET transformed(mod) ==
                 IF hasRegobrickFeature(mod, "default_false") THEN addDefaultFalse(mod)
                 ELSE mod
         IN  [st |-> "ok", err |-> "", mod |-> transformed(addImports(parsed.mod, imports))]

\* the rules of the model: complete rules, rules with the key "if", a
\* partial set rule, a function rule and declared defaults, for two references
RuleShapes ==
    { Rule("allow", FALSE, 0, "nil", "true"), Rule("allow", FALSE, 0, "if", "true"),
      Rule("allow", FALSE, 0, "other", "true"), Rule("allow", FALSE, 1, "nil", "true"),
      Rule("allow", TRUE, 0, "nil", "true"),
      Rule("deny", FALSE, 0, "nil", "true"), Rule("deny", TRUE, 0, "nil", "false") }

\* import paths as ParseModule receives them: "", the sentinel, data.x and
\* data.regobrick.default-false
ImportPaths ==
    { <<>>, <<"data", ".", "regobrick", ".", "default_false">>, <<"data", ".", "x">>,
      <<"data", ".", "regobrick", ".", "default-false">> }

\* the import lists of the sources
SourceImports ==
    { <<>>, << <<"data", "regobrick", "default_false">> >>, << <<"data", "x">> >> }

Modules == { Module(i, r) : i \in SourceImports, r \in SeqsUpTo(RuleShapes, MaxRules) }

(***************************************************************************)
(* The function FnWrapN returns, run step by step: each invocation has a   *)
(* frame of its own with the captured fn, the terms it was called with and *)
(* its locals.  A step is one call the function makes: the length check of *)
(* fnWrapNConvert, one RegoToGo, the wrapped function, GoToRego.           *)
(***************************************************************************)
Frame(types, valueForm, fn, terms) ==
    [pc |-> "convert", types |-> types, valueForm |-> valueForm, fn |-> fn, terms |-> terms,
     vals |-> <<>>, res |-> GoNil(TAny),
     ret |-> AdapterReturn("none", "", NoTerm, FALSE, 0, FALSE)]

\* the invocation returns
Returned(f, ret) == [f EXCEPT !.pc = "done", !.ret = ret]

\* the next step of the invocation with frame f
advance(f) ==
    CASE f.pc = "convert" ->
           IF TooFew(Len(f.types), f.terms)
           THEN Returned(f, AdapterReturn("err", "arity", NoTerm, FALSE, 0, FALSE))
           ELSE [f EXCEPT !.pc = "arg"]
      [] f.pc = "arg" ->
           IF Len(f.vals) = Len(f.types) THEN [f EXCEPT !.pc = "call"]
           ELSE LET decoded(r) ==
                        IF r.st # "ok"
                        THEN Returned(f, AdapterReturn(r.st, r.err, NoTerm, FALSE,
                                                       Len(f.vals) + 1, FALSE))
                        ELSE [f EXCEPT !.vals = Append(@, r.rv)]
                IN  decoded(RegoToGo(f.types[Len(f.vals) + 1], f.terms[Len(f.vals) + 1]))
      [] f.pc = "call" ->
           IF f.fn.err
           THEN Returned(f, AdapterReturn("err", "host", NoTerm, TRUE, Len(f.types), FALSE))
           ELSE IF ~f.valueForm
           THEN Returned(f, AdapterReturn("ok", "", Null, TRUE, Len(f.types), FALSE))
           ELSE [f EXCEPT !.pc = "encode", !.res = f.fn.res]
      [] f.pc = "encode" ->
           LET encoded(e) ==
                   IF e.st # "ok"
                   THEN Returned(f, AdapterReturn(e.st, e.err, NoTerm, TRUE, Len(f.types), TRUE))
                   ELSE Returned(f, AdapterReturn("ok", "", e.rv, TRUE, Len(f.types), TRUE))
           IN  encoded(GoToRego(f.res))

\* a step that keeps the decoded arguments in one place for all invocations
invokeSharedArgs(frames, g) ==
    [h \in DOMAIN frames |->
        IF h = g THEN advance(frames[g])
        ELSE IF frames[h].pc = "arg" THEN [frames[h] EXCEPT !.vals = advance(frames[g]).vals]
        ELSE frames[h]]

\* invocation g takes its next step; the step works on its own frame
invoke(frames, g) == [frames EXCEPT ![g] = advance(frames[g])]

\* the invocations run side by side: two-parameter and one-parameter
\* adapters, terms that decode and terms that do not, functions that return
\* a value or an error
Invocations ==
    { Frame(types, valueForm, fn, terms) :
        types \in {<<TString, TInt8>>, <<TInt8>>},
        valueForm \in BOOLEAN,
        fn \in {[err |-> FALSE, res |-> GoString(TString, "foo")],
                [err |-> TRUE, res |-> GoNil(TAny)]},
        terms \in {<<String("a"), Number(<<"4", "2">>)>>,
                   <<Number(<<"4", "2">>), String("a")>>,
                   <<Number(<<"7">>)>>} }

(***************************************************************************)
(* Loading modules into the engine: module.Module, which applies to a      *)
(* *rego.Rego, and Brick.Rego, which builds one.  What the engine gets is  *)
(* the sequence of options applied to it.  A source is given by what       *)
(* ast.ParseModule makes of it.                                            *)
(***************************************************************************)
\* rego.Module(filename, source): the source text itself
RawModule(parsed) == [kind |-> "Module", parsed |-> parsed]

\* rego.ParsedModule(mod)
ParsedModuleOpt(mod) == [kind |-> "ParsedModule", mod |-> mod]

\* rego.ParsedInput(v)
ParsedInputOpt(v) == [kind |-> "ParsedInput", v |-> v]

\* module.Module(filename, source, imports)(r): the options r receives; the
\* function returns nothing
ModuleOption(parsed, imports) ==
    LET applied(p) ==
            IF p.st = "err" THEN <<RawModule(parsed)>> ELSE <<ParsedModuleOpt(p.mod)>>
    IN  applied(ParseModule(parsed, imports))

\* the loop of Brick.Rego over b.modules from module i on, opts collected
RECURSIVE brickModules(_, _, _)
brickModules(modules, i, opts) ==
    IF i > Len(modules) THEN [st |-> "ok", err |-> "", opts |-> opts]
    ELSE LET parsedModule(p) ==
                 IF p.st = "err" THEN [st |-> "err", err |-> p.err, opts |-> <<>>]
                 ELSE brickModules(modules, i + 1, Append(opts, ParsedModuleOpt(p.mod)))
         IN  parsedModule(ParseModule(modules[i].parsed, modules[i].imports))

\* Brick.Rego: the modules, then the input when there is one
BrickRego(modules, rawInput) ==
    LET withInput(m, parsedInput) ==
            IF m.st = "err" THEN m
            ELSE IF rawInput.nil THEN m
            ELSE IF parsedInput.st # "ok"
                 THEN [st |-> "err", err |-> parsedInput.err, opts |-> <<>>]
            ELSE [m EXCEPT !.opts = Append(@, ParsedInputOpt(parsedInput.rv))]
    IN  withInput(brickModules(modules, 1, <<>>), GoToRego(rawInput))

\* a source that does not parse
Unparsable == [ok |-> FALSE, mod |-> Module(<<>>, <<>>)]

\* the modules configured on a Brick: a source that does not parse, one with
\* the sentinel handed in, one without it
BrickModules ==
    { [parsed |-> Unparsable, imports |-> <<>>],
      [parsed |-> [ok |-> TRUE,
                   mod |-> Module(<<>>, <<Rule("allow", FALSE, 0, "if", "true")>>)],
       imports |-> << <<"data", ".", "regobrick", ".", "default_false">> >>],
      [parsed |-> [ok |-> TRUE,
                   mod |-> Module(<<>>, <<Rule("deny", FALSE, 0, "nil", "true")>>)],
       imports |-> <<>>] }

\* the input of a Brick: none, one that encodes, one that does not
RawInputs ==
    { GoNil(TAny), GoIface(TAny, GoString(TString, "foo")), GoIface(TAny, GoRef(FuncType)) }

(***************************************************************************)
(* Registration, register_builtins.go.  A []string is nil or a sequence.   *)
(***************************************************************************)
BuiltinNames == {"f", "g"}
Categories == {"c1", "c2"}

NilSlice == [nil |-> TRUE, elems |-> <<>>]
Slice(elems) == [nil |-> FALSE, elems |-> elems]

\* no entry under the name in customBuiltinCategories
NotStored == [stored |-> FALSE, cats |-> NilSlice]
Stored(cats) == [stored |-> TRUE, cats |-> cats]

\* a store that appends to the list the name already has
storeCustomCategoriesMerging(table, name, categories) ==
    IF Len(categories.elems) > 0
    THEN [table EXCEPT ![name] = Stored(Slice(@.cats.elems \o categories.elems))]
    ELSE [table EXCEPT ![name] = Stored(@.cats)]

\* a store that keeps no category
storeCustomCategoriesDropping(table, name, categories) ==
    [table EXCEPT ![name] = Stored(NilSlice)]

\* storeCustomCategories on the table customBuiltinCategories
storeCustomCategories(table, name, categories) ==
    IF Len(categories.elems) > 0
    THEN [table EXCEPT ![name] = Stored(categories)]
    ELSE [table EXCEPT ![name] = Stored(NilSlice)]

\* the options of a registration
WithCategories(cats) == [option |-> "WithCategories", cats |-> cats]
WithNondeterministic == [option |-> "WithNondeterministic"]
WithDefaultDecimal == [option |-> "WithDefaultDecimal"]

\* builtinRegisterConfig, of which nondeterministic and decimalAsDefault are
\* kept as they go to the engine and the adapter
builtinRegisterConfig(categories, nondeterministic, decimalAsDefault) ==
    [categories |-> categories, nondeterministic |-> nondeterministic,
     decimalAsDefault |-> decimalAsDefault]

\* the loop "for _, opt := range opts { opt(&cfg) }"
RECURSIVE applyOptions(_, _)
applyOptions(cfg, opts) ==
    IF Len(opts) = 0 THEN cfg
    ELSE applyOptions(
             CASE opts[1].option = "WithCategories" -> [cfg EXCEPT !.categories = opts[1].cats]
               [] opts[1].option = "WithNondeterministic" -> [cfg EXCEPT !.nondeterministic = TRUE]
               [] opts[1].option = "WithDefaultDecimal" -> [cfg EXCEPT !.decimalAsDefault = TRUE],
             Tail(opts))

\* RegisterBuiltinN and RegisterBuiltinN_, N = 0..5: what the call leaves in
\* the table; the arities and forms differ in the declared type and the
\* adapter only
RegisterBuiltin(table, name, opts) ==
    storeCustomCategories(table, name,
        applyOptions(builtinRegisterConfig(NilSlice, FALSE, FALSE), opts).categories)

\* the option lists of the registrations
OptionLists ==
    { <<>>, <<WithCategories(NilSlice)>>, <<WithCategories(Slice(<<>>))>>,
      <<WithCategories(Slice(<<"c1">>))>>, <<WithCategories(Slice(<<"c2">>))>>,
      <<WithCategories(Slice(<<"c1", "c2">>))>>,
      <<WithCategories(Slice(<<"c1">>)), WithNondeterministic>>,
      <<WithCategories(Slice(<<"c1">>)), WithCategories(Slice(<<"c2">>))>>,
      <<WithDefaultDecimal>> }

(***************************************************************************)
(* FilterCapabilities.  The engine describes each builtin by its name, its *)
(* infix symbol ("" without one) and its categories; a registered custom   *)
(* builtin is described with neither, its categories are in the table.     *)
(***************************************************************************)
Builtin(name, infix, categories) == [name |-> name, infix |-> infix, categories |-> categories]

\* builtins of the engine itself
EngineBuiltins ==
    { Builtin("eq", "=", <<>>), Builtin("assign", ":=", <<>>),
      Builtin("internal.member_2", "in", <<>>), Builtin("internal.member_3", "in", <<>>),
      Builtin("neq", "!=", <<>>), Builtin("plus", "+", <<>>),
      Builtin("concat", "", <<"strings">>), Builtin("count", "", <<"aggregates">>) }

\* the builtins the engine knows: its own and the custom ones registered
Builtins(table) ==
    EngineBuiltins \cup {Builtin(name, "", <<>>) : name \in {n \in BuiltinNames : table[n].stored}}

\* a test that lets every infix operator through
infixAllowedAny(infix) == infix # ""

\* infixAllowed
infixAllowed(infix) == infix \in {"=", ":=", "in"}

\* the categories of a builtin: the engine's and the registered ones
categoriesOf(table, b) ==
    {b.categories[i] : i \in 1..Len(b.categories)} \cup
    (IF b.name \in BuiltinNames
     THEN {table[b.name].cats.elems[i] : i \in 1..Len(table[b.name].cats.elems)}
     ELSE {})

\* FilterCapabilities(allowedNames, allowedCats): the builtins kept
FilterCapabilities(table, allowedNames, allowedCats) ==
    {b \in Builtins(table) :
        \/ infixAllowed(b.infix)
        \/ \E i \in 1..Len(allowedNames.elems) : allowedNames.elems[i] = b.name
        \/ \E i \in 1..Len(allowedCats.elems) :
               allowedCats.elems[i] \in categoriesOf(table, b)}

AllowedNames ==
    { NilSlice, Slice(<<>>), Slice(<<"f">>), Slice(<<"concat">>), Slice(<<"f", "concat">>),
      Slice(<<"non_existent_builtin">>) }

AllowedCats ==
    { NilSlice, Slice(<<>>), Slice(<<"c1">>), Slice(<<"c2">>), Slice(<<"strings">>),
      Slice(<<"c2", "strings">>), Slice(<<"non_existent_category">>) }

(***************************************************************************)
(* The state: the last call made to the library, with what went in and     *)
(* what came out.                                                          *)
(***************************************************************************)
VARIABLES
    op,     \* the entry point last called
    typ,    \* the type parameter T of a decode
    val,    \* the ast.Value decoded
    gin,    \* the Go value encoded
    dec,    \* what the decode returned
    enc,    \* what the encode returned
    adp,    \* the adapter called: arity, form, terms, wrapped function
    ret,    \* what the adapter returned
    pin,    \* the module parsed from the source, and the extra imports
    pout,   \* what the module call returned
    eng,    \* the options the call handed to the engine
    customBuiltinCategories,    \* the process-wide table of categories
    inv     \* the adapter invocations running concurrently, one frame each

vars ==
    <<op, typ, val, gin, dec, enc, adp, ret, pin, pout, eng, customBuiltinCategories, inv>>

NoDec == [st |-> "none", err |-> "", rv |-> GoNil(TAny)]
NoEnc == [st |-> "none", err |-> "", rv |-> Null]
NoAdp ==
    [n |-> 0, valueForm |-> FALSE, terms |-> <<>>, fn |-> [err |-> FALSE, res |-> GoNil(TAny)],
     types |-> <<>>, asOk |-> [i \in 1..MaxArity |-> TRUE]]
NoRet == AdapterReturn("none", "", NoTerm, FALSE, 0, FALSE)
NoModule == Module(<<>>, <<>>)
NoPin == [ok |-> FALSE, mod |-> NoModule, imports |-> <<>>]
NoPout == [st |-> "none", err |-> "", mod |-> NoModule, twice |-> NoModule]

Init ==
    /\ op = "idle"
    /\ typ = TBool
    /\ val = Null
    /\ gin = GoNil(TAny)
    /\ dec = NoDec
    /\ enc = NoEnc
    /\ adp = NoAdp
    /\ ret = NoRet
    /\ pin = NoPin
    /\ pout = NoPout
    /\ eng = <<>>
    /\ inv = <<>>
    /\ customBuiltinCategories = [name \in BuiltinNames |-> NotStored]

\* RegoToGo[T](v)
CallRegoToGo ==
    /\ op = "idle"
    /\ \E T \in Types, v \in Values :
        /\ op' = "RegoToGo"
        /\ pin' = NoPin
        /\ pout' = NoPout
        /\ eng' = <<>>
        /\ inv' = <<>>
        /\ customBuiltinCategories' = customBuiltinCategories
        /\ typ' = T
        /\ val' = v
        /\ dec' = RegoToGo(T, v)
        /\ gin' = GoNil(TAny)
        /\ enc' = NoEnc
        /\ adp' = NoAdp
        /\ ret' = NoRet

\* RegoToGo[struct{ A T }]({"A": v}): v decoded as the value of a field
CallRegoToGoField ==
    /\ op = "idle"
    /\ \E T \in Types, v \in Values :
        /\ op' = "RegoToGoField"
        /\ pin' = NoPin
        /\ pout' = NoPout
        /\ eng' = <<>>
        /\ inv' = <<>>
        /\ customBuiltinCategories' = customBuiltinCategories
        /\ typ' = T
        /\ val' = v
        /\ dec' = RegoToGo(Holder(T), Object(<<Item(String("A"), v)>>))
        /\ gin' = GoNil(TAny)
        /\ enc' = NoEnc
        /\ adp' = NoAdp
        /\ ret' = NoRet

\* GoToRego(x)
CallGoToRego ==
    /\ op = "idle"
    /\ \E x \in GoValues :
        /\ op' = "GoToRego"
        /\ pin' = NoPin
        /\ pout' = NoPout
        /\ eng' = <<>>
        /\ inv' = <<>>
        /\ customBuiltinCategories' = customBuiltinCategories
        /\ gin' = x
        /\ enc' = GoToRego(x)
        /\ typ' = TBool
        /\ val' = Null
        /\ dec' = NoDec
        /\ adp' = NoAdp
        /\ ret' = NoRet

\* RegoToGo[T](GoToRego(x)) for x of type T
CallRoundTrip ==
    /\ op = "idle"
    /\ \E x \in GoValues :
        /\ op' = "RoundTrip"
        /\ pin' = NoPin
        /\ pout' = NoPout
        /\ eng' = <<>>
        /\ inv' = <<>>
        /\ customBuiltinCategories' = customBuiltinCategories
        /\ gin' = x
        /\ enc' = GoToRego(x)
        /\ typ' = x.t
        /\ val' = IF enc'.st = "ok" THEN enc'.rv ELSE Null
        /\ dec' = IF enc'.st = "ok" THEN RegoToGo(x.t, enc'.rv) ELSE NoDec
        /\ adp' = NoAdp
        /\ ret' = NoRet

\* a call of the function FnWrapN / FnWrapN_ returned
CallFnWrap ==
    /\ op = "idle"
    /\ \E types \in SeqsUpTo(ArgTypes, MaxArity), terms \in SeqsUpTo(ArgValues, MaxTerms),
       valueForm \in BOOLEAN, fn \in HostOutcomes :
        /\ op' = "FnWrap"
        /\ pin' = NoPin
        /\ pout' = NoPout
        /\ eng' = <<>>
        /\ inv' = <<>>
        /\ customBuiltinCategories' = customBuiltinCategories
        /\ adp' = [n |-> Len(types), valueForm |-> valueForm, terms |-> terms, fn |-> fn,
                   types |-> types, asOk |-> [i \in 1..MaxArity |-> TRUE]]
        /\ ret' = FnWrap(types, valueForm, fn, terms)
        /\ typ' = TBool
        /\ val' = Null
        /\ gin' = GoNil(TAny)
        /\ dec' = NoDec
        /\ enc' = NoEnc

\* a call of the function AdapterN / AdapterN_ returned
CallAdapter ==
    /\ op = "idle"
    /\ \E n \in 0..MaxArity, terms \in SeqsUpTo(ArgValues, MaxTerms),
       asOk \in [1..MaxArity -> BOOLEAN], itvOk \in BOOLEAN,
       valueForm \in BOOLEAN, fn \in HostOutcomes :
        /\ op' = "Adapter"
        /\ pin' = NoPin
        /\ pout' = NoPout
        /\ eng' = <<>>
        /\ inv' = <<>>
        /\ customBuiltinCategories' = customBuiltinCategories
        /\ adp' = [n |-> n, valueForm |-> valueForm, terms |-> terms, fn |-> fn,
                   types |-> <<>>, asOk |-> asOk]
        /\ ret' = Adapter(n, valueForm, fn, terms, asOk, itvOk)
        /\ typ' = TBool
        /\ val' = Null
        /\ gin' = GoNil(TAny)
        /\ dec' = NoDec
        /\ enc' = NoEnc

\* ParseModule(filename, source, imports) returned; the parser either
\* failed on the source or built one of the modules
CallParseModule ==
    /\ op = "idle"
    /\ \E ok \in BOOLEAN, mod \in Modules, imports \in SeqsUpTo(ImportPaths, MaxImports) :
        /\ ok \/ (mod = NoModule /\ imports = <<>>)
        /\ op' = "ParseModule"
        /\ eng' = <<>>
        /\ inv' = <<>>
        /\ customBuiltinCategories' = customBuiltinCategories
        /\ pin' = [ok |-> ok, mod |-> mod, imports |-> imports]
        /\ pout' = ParseModule(pin', imports)
        /\ typ' = TBool
        /\ val' = Null
        /\ gin' = GoNil(TAny)
        /\ dec' = NoDec
        /\ enc' = NoEnc
        /\ adp' = NoAdp
        /\ ret' = NoRet

\* addDefaultFalse(mod) run on a module, and once more on the same module
CallAddDefaultFalse ==
    /\ op = "idle"
    /\ \E mod \in Modules :
        /\ op' = "addDefaultFalse"
        /\ eng' = <<>>
        /\ inv' = <<>>
        /\ customBuiltinCategories' = customBuiltinCategories
        /\ pin' = [ok |-> TRUE, mod |-> mod, imports |-> <<>>]
        /\ pout' = [st |-> "ok", err |-> "", mod |-> addDefaultFalse(mod),
                    twice |-> addDefaultFalse(addDefaultFalse(mod))]
        /\ typ' = TBool
        /\ val' = Null
        /\ gin' = GoNil(TAny)
        /\ dec' = NoDec
        /\ enc' = NoEnc
        /\ adp' = NoAdp
        /\ ret' = NoRet

\* module.Module(filename, source, imports) applied to a *rego.Rego
CallModule ==
    /\ op = "idle"
    /\ \E ok \in BOOLEAN, mod \in Modules, imports \in SeqsUpTo(ImportPaths, MaxImports) :
        /\ ok \/ mod = NoModule
        /\ op' = "Module"
        /\ pin' = [ok |-> ok, mod |-> mod, imports |-> imports]
        /\ pout' = [st |-> "void", err |-> "", mod |-> NoModule, twice |-> NoModule]
        /\ eng' = ModuleOption([ok |-> ok, mod |-> mod], imports)
        /\ inv' = <<>>
        /\ customBuiltinCategories' = customBuiltinCategories
        /\ typ' = TBool
        /\ val' = Null
        /\ gin' = GoNil(TAny)
        /\ dec' = NoDec
        /\ enc' = NoEnc
        /\ adp' = NoAdp
        /\ ret' = NoRet

\* Brick.Rego() on a Brick with its modules and input
CallBrickRego ==
    /\ op = "idle"
    /\ \E modules \in SeqsUpTo(BrickModules, MaxModules), rawInput \in RawInputs :
        /\ op' = "Brick.Rego"
        /\ pin' = [modules |-> modules, rawInput |-> rawInput]
        /\ pout' = BrickRego(modules, rawInput)
        /\ eng' = pout'.opts
        /\ inv' = <<>>
        /\ customBuiltinCategories' = customBuiltinCategories
        /\ typ' = TBool
        /\ val' = Null
        /\ gin' = GoNil(TAny)
        /\ dec' = NoDec
        /\ enc' = NoEnc
        /\ adp' = NoAdp
        /\ ret' = NoRet

\* RegisterBuiltinN(name, fn, opts...) or RegisterBuiltinN_(name, fn, opts...)
CallRegisterBuiltin ==
    /\ op = "idle"
    /\ \E name \in BuiltinNames, opts \in OptionLists :
        /\ op' = "RegisterBuiltin"
        /\ pin' = [name |-> name, opts |-> opts, before |-> customBuiltinCategories[name]]
        /\ pout' = NoPout
        /\ eng' = <<>>
        /\ inv' = <<>>
        /\ customBuiltinCategories' = RegisterBuiltin(customBuiltinCategories, name, opts)
        /\ typ' = TBool
        /\ val' = Null
        /\ gin' = GoNil(TAny)
        /\ dec' = NoDec
        /\ enc' = NoEnc
        /\ adp' = NoAdp
        /\ ret' = NoRet

\* FilterCapabilities(allowedNames, allowedCats)
CallFilterCapabilities ==
    /\ op = "idle"
    /\ \E allowedNames \in AllowedNames, allowedCats \in AllowedCats :
        /\ op' = "FilterCapabilities"
        /\ pin' = [allowedNames |-> allowedNames, allowedCats |-> allowedCats]
        /\ pout' = [st |-> "ok", err |-> "",
                    builtins |-> FilterCapabilities(customBuiltinCategories,
                                                    allowedNames, allowedCats)]
        /\ eng' = <<>>
        /\ inv' = <<>>
        /\ customBuiltinCategories' = customBuiltinCategories
        /\ typ' = TBool
        /\ val' = Null
        /\ gin' = GoNil(TAny)
        /\ dec' = NoDec
        /\ enc' = NoEnc
        /\ adp' = NoAdp
        /\ ret' = NoRet

\* RegisterBuiltinN(name, fn, opts...) and then
\* FilterCapabilities(allowedNames, allowedCats)
CallRegisterThenFilter ==
    /\ op = "idle"
    /\ \E name \in BuiltinNames, opts \in OptionLists,
          allowedNames \in AllowedNames, allowedCats \in AllowedCats :
        /\ op' = "RegisterThenFilter"
        /\ pin' = [name |-> name, opts |-> opts, before |-> customBuiltinCategories[name],
                   allowedNames |-> allowedNames, allowedCats |-> allowedCats]
        /\ customBuiltinCategories' = RegisterBuiltin(customBuiltinCategories, name, opts)
        /\ pout' = [st |-> "ok", err |-> "",
                    builtins |-> FilterCapabilities(customBuiltinCategories',
                                                    allowedNames, allowedCats)]
        /\ eng' = <<>>
        /\ inv' = <<>>
        /\ typ' = TBool
        /\ val' = Null
        /\ gin' = GoNil(TAny)
        /\ dec' = NoDec
        /\ enc' = NoEnc
        /\ adp' = NoAdp
        /\ ret' = NoRet

\* the caller takes the result; the library keeps nothing of the call
Return ==
    /\ op # "idle"
    /\ op' = "idle"
    /\ pin' = NoPin
    /\ pout' = NoPout
    /\ eng' = <<>>
    /\ inv' = <<>>
    /\ customBuiltinCategories' = customBuiltinCategories
    /\ typ' = TBool
    /\ val' = Null
    /\ gin' = GoNil(TAny)
    /\ dec' = NoDec
    /\ enc' = NoEnc
    /\ adp' = NoAdp
    /\ ret' = NoRet

Next ==
    \/ CallRegoToGo
    \/ CallRegoToGoField
    \/ CallGoToRego
    \/ CallRoundTrip
    \/ CallFnWrap
    \/ CallAdapter
    \/ CallParseModule
    \/ CallAddDefaultFalse
    \/ CallModule
    \/ CallBrickRego
    \/ Return

Spec == Init /\ [][Next]_vars

\* two invocations of adapters start, each on its own terms
Go ==
    /\ op = "idle"
    /\ \E f1 \in Invocations, f2 \in Invocations :
        /\ op' = "Concurrent"
        /\ inv' = <<f1, f2>>
    /\ UNCHANGED <<typ, val, gin, dec, enc, adp, ret, pin, pout, eng, customBuiltinCategories>>

\* one of the running invocations takes a step
Step ==
    /\ op = "Concurrent"
    /\ \E g \in DOMAIN inv :
        /\ inv[g].pc # "done"
        /\ inv' = invoke(inv, g)
    /\ UNCHANGED <<op, typ, val, gin, dec, enc, adp, ret, pin, pout, eng,
                   customBuiltinCategories>>

\* both invocations have returned
Join ==
    /\ op = "Concurrent"
    /\ \A g \in DOMAIN inv : inv[g].pc = "done"
    /\ op' = "idle"
    /\ inv' = <<>>
    /\ UNCHANGED <<typ, val, gin, dec, enc, adp, ret, pin, pout, eng, customBuiltinCategories>>

NextConcurrent ==
    \/ Go
    \/ Step
    \/ Join

SpecConcurrent == Init /\ [][NextConcurrent]_vars

\* the registrations and the filter, which share the table
NextRegistry ==
    \/ CallRegisterBuiltin
    \/ CallFilterCapabilities
    \/ CallRegisterThenFilter
    \/ Return

SpecRegistry == Init /\ [][NextRegistry]_vars

(***************************************************************************)
(* Properties.                                                             *)
(***************************************************************************)
AdapterOps == {"FnWrap", "Adapter"}
DecodeOps == {"RegoToGo", "RegoToGoField"}

\* the value a decode produced for the type typ: the result itself, or
\* the field A of the holder struct
Decoded == IF op = "RegoToGoField" THEN dec.rv.fields[1] ELSE dec.rv

C2_ZeroValueOnError ==
    (op = "RegoToGo" /\ typ.kind \in {"struct", "slice", "array", "map"} /\ dec.st = "err")
        => dec.rv = Zero(typ)

\* C3: no RegoToGo or GoToRego call panics: each ends with a result or with
\* a returned error.
C3_NoPanic ==
    op \in DecodeOps \cup {"GoToRego", "RoundTrip"}
        => (dec.st # "panic" /\ enc.st # "panic")

NonNullable(t) ==
    /\ t # TNullDecimal
    /\ t.kind \in {"bool", "string", "struct"} \cup SignedKinds \cup UnsignedKinds \cup FloatKinds

\* C4: decoding Null into a non-nullable target (bool, string, an integer or
\* float width, a struct, Decimal, Timestamp) returns an error, as the whole
\* value, as the value of a struct field and as the element of a slice.
C4_NullRejected ==
    /\ (op \in DecodeOps /\ val = Null /\ NonNullable(typ)) => dec.st = "err"
    /\ (op = "RegoToGo" /\ val = Array(<<Null>>) /\ typ.kind = "slice"
            /\ NonNullable(typ.elem)) => dec.st = "err"

C4_Witness ==
    /\ op = "RegoToGoField"
    /\ val = Null
    /\ typ = TTime
    /\ dec.st = "err"
    /\ dec.err = "null"

\* C5: decoding Null into a pointer, slice, map or interface target, as the
\* whole value or as the value of a struct field, succeeds and yields the
\* nil value of the type.
C5_NullIntoNullable ==
    (op \in DecodeOps /\ val = Null /\ typ.kind \in {"ptr", "slice", "map", "interface"})
        => (dec.st = "ok" /\ Decoded = GoNil(typ))

\* the key of field i of a struct value is emitted by the encoder
Emitted(v, i) == v.t.fields[i].exported /\ getStructFieldKey(v.t.fields[i]) # ""

\* C6: GoToRego yields Null for every nil pointer, slice, map, interface,
\* function or channel, as the whole value, as a struct field and as an
\* element.
C6_NilIsNull ==
    op = "GoToRego" =>
        /\ IsNil(gin) => (enc.st = "ok" /\ enc.rv = Null)
        /\ (gin.t.kind = "struct" /\ gin.t \notin {TDecimal, TNullDecimal, TTime}) =>
               \A i \in 1..Len(gin.fields) :
                   (Emitted(gin, i) /\ IsNil(gin.fields[i])) =>
                       /\ enc.st = "ok"
                       /\ ObjGet(enc.rv, String(getStructFieldKey(gin.t.fields[i])))
                              = [found |-> TRUE, val |-> Null]
        /\ (gin.t.kind = "slice" /\ ~gin.nil) =>
               \A i \in 1..Len(gin.elems) :
                   IsNil(gin.elems[i]) => (enc.st = "ok" /\ enc.rv.elems[i] = Null)

\* C7: when the function wrapped by a value-form adapter returns a nil
\* pointer, slice, map, interface, function or channel with a nil error, the
\* adapter returns the Null term and a nil error.
C7_NilReturnIsNull ==
    (op \in AdapterOps /\ adp.valueForm /\ ret.called /\ ~adp.fn.err /\ IsNil(adp.fn.res))
        => (ret.st = "ok" /\ ret.term = Null)

\* C8: encoding a non-nil map[string]struct{} with key set K, the empty map
\* included, yields a Set whose members are the strings of K.
C8_StringSetIsSet ==
    (op = "GoToRego" /\ gin.t = TStringSet /\ ~gin.nil)
        => /\ enc.st = "ok"
           /\ enc.rv.k = "set"
           /\ SetMembers(enc.rv) = {String(e.key.s) : e \in gin.ents}

\* C9: for every map[string]struct{} m, decoding GoToRego(m) back into
\* map[string]struct{} succeeds and yields a map with the key set of m.
C9_StringSetRoundTrip ==
    (op = "RoundTrip" /\ gin.t = TStringSet)
        => /\ enc.st = "ok"
           /\ dec.st = "ok"
           /\ dec.rv.t = TStringSet
           /\ MapKeys(Ents(dec.rv)) = MapKeys(Ents(gin))

C9_Witness ==
    /\ op = "RoundTrip"
    /\ gin = Keyed(TStringSet, {"foo", "bar"})
    /\ dec.st = "ok"
    /\ Cardinality(Ents(dec.rv)) = 2

C11_DecimalRoundTrip ==
    (op = "RoundTrip" /\ gin.t = TDecimal)
        => /\ enc.st = "ok"
           /\ enc.rv = Number(DecimalString(gin.d))
           /\ \A i \in 1..Len(enc.rv.n) : enc.rv.n[i] \notin {"e", "E"}
           /\ dec.st = "ok"
           /\ dec.rv = gin

C11_Witness ==
    /\ op = "RoundTrip"
    /\ gin.t = TDecimal
    /\ enc.rv = Number(<<"1", "2", "3", "4", "5", "6", "7", "8", "9", "0", "1", "2", "3",
                         "4", "5", "6", "7", "8", "9", "0", ".", "1", "2", "3", "4", "5">>)
    /\ dec.st = "ok"
    /\ dec.rv = gin

\* the integers a kind holds
Representable(kind, v) ==
    CASE kind = "int8" -> BigLeq(MinInt8, v) /\ BigLeq(v, MaxInt8)
      [] kind = "int16" -> BigLeq(MinInt16, v) /\ BigLeq(v, MaxInt16)
      [] kind = "int32" -> BigLeq(MinInt32, v) /\ BigLeq(v, MaxInt32)
      [] kind \in {"int", "int64"} -> BigLeq(MinInt64, v) /\ BigLeq(v, MaxInt64)
      [] kind = "uint8" -> BigLeq(BigZero, v) /\ BigLeq(v, MaxUint8)
      [] kind = "uint16" -> BigLeq(BigZero, v) /\ BigLeq(v, MaxUint16)
      [] kind = "uint32" -> BigLeq(BigZero, v) /\ BigLeq(v, MaxUint32)
      [] kind \in {"uint", "uint64"} -> BigLeq(BigZero, v) /\ BigLeq(v, MaxUint64)

\* the part of C12 about the integer widths: an integer text outside the
\* range of the target is an error, and a decoded integer is the integer of
\* the text
C12_IntegerRange ==
    (op \in DecodeOps /\ val.k = "number" /\ typ.kind \in SignedKinds \cup UnsignedKinds)
        => /\ (SignedDigits(val.n).ok /\ ~Representable(typ.kind, SignedDigits(val.n).v))
                  => dec.st = "err"
           /\ dec.st = "ok"
                  => /\ Representable(typ.kind, Decoded.i)
                     /\ Decoded.i = SignedDigits(val.n).v

\* C12: decoding a Number whose value lies outside the range of the target
\* int, uint or float width returns an error, never a wrapped, truncated or
\* infinite value; 300 into int8 fails and 100 into int8 yields 100.
C12_OutOfRangeIsError ==
    (op \in DecodeOps /\ val.k = "number")
        => /\ C12_IntegerRange
           /\ (typ.kind \in FloatKinds /\ dec.st = "ok") => Decoded.f # "fInf"
           /\ (typ = TInt8 /\ val.n = <<"3", "0", "0">>) => dec.st = "err"
           /\ (typ = TInt8 /\ val.n = <<"1", "0", "0">>)
                  => (dec.st = "ok" /\ Decoded = GoInt(TInt8, Big(FALSE, <<1, 0, 0>>)))

\* a struct type other than decimal.Decimal, decimal.NullDecimal, time.Time
PlainStruct(t) == t.kind = "struct" /\ t \notin {TDecimal, TNullDecimal, TTime}

\* the value the object val holds under the key of field i of struct type t
FieldTerm(t, i) == ObjGet(val, String(getStructFieldKey(t.fields[i])))

\* C13: decoding an Object into a struct does not depend on which keys are
\* present: a field whose key the Object lacks stays at its zero value, keys
\* that match no field are ignored, and the decode succeeds whenever the
\* values under the keys that do match decode into their fields.
C13_PartialStruct ==
    (op = "RegoToGo" /\ PlainStruct(typ) /\ val.k = "object")
        => /\ \A i \in 1..Len(typ.fields) :
                  ~FieldTerm(typ, i).found
                      => dec.rv.fields[i] = Zero(typ.fields[i].type)
           /\ (\A i \in 1..Len(typ.fields) :
                  (typ.fields[i].exported /\ FieldTerm(typ, i).found)
                      => assignRegoValueToGo(FieldTerm(typ, i).val,
                                             Zero(typ.fields[i].type)).st = "ok")
                  => dec.st = "ok"

C13_Witness ==
    /\ op = "RegoToGo"
    /\ typ = TPerson
    /\ val = Object(<<Item(String("A"), String("a")), Item(String("a"), Number(<<"1">>))>>)
    /\ dec.st = "ok"
    /\ dec.rv = GoStruct(TPerson, <<GoString(TString, "a"), GoInt(TInt, BigZero)>>)

\* a field takes part in conversion: exported and not marked json:"-"
TakesPart(sf) == sf.exported /\ ~(sf.tag.set /\ sf.tag.key = "-")

\* the key of a field that takes part: the name its tag gives, else its
\* field name
KeyOf(sf) == IF sf.tag.set /\ sf.tag.key \notin {"", "-"} THEN sf.tag.key ELSE sf.name

\* C14: a struct field takes part in both directions iff it is exported and
\* not marked json:"-", under its tag's name if it has one and its field
\* name otherwise: the Decoder never writes a field that does not take part,
\* whatever keys the Object has, and the Encoder emits exactly the keys of
\* the fields that take part.
C14_FieldVisibility ==
    /\ (op = "RegoToGo" /\ PlainStruct(typ) /\ val.k = "object")
           => \A i \in 1..Len(typ.fields) :
                  ~TakesPart(typ.fields[i])
                      => dec.rv.fields[i] = Zero(typ.fields[i].type)
    /\ (op = "GoToRego" /\ PlainStruct(gin.t) /\ enc.st = "ok")
           => ObjKeys(enc.rv)
                  = { String(KeyOf(gin.t.fields[i])) :
                          i \in {j \in 1..Len(gin.t.fields) : TakesPart(gin.t.fields[j])} }

\* C15: when the wrapped function returns a non-nil error, the adapter
\* returns that same error value, with no result term, and does not encode
\* the value the function returned.
C15_HostErrorVerbatim ==
    (op \in AdapterOps /\ ret.called /\ adp.fn.err)
        => /\ ret.st = "err"
           /\ ret.err = "host"
           /\ ret.term = NoTerm
           /\ ~ret.encoded

C15_Witness ==
    /\ op = "FnWrap"
    /\ adp.n = 2
    /\ adp.valueForm
    /\ adp.fn = [err |-> TRUE, res |-> GoString(TString, "foo")]
    /\ ret.called
    /\ ret.err = "host"
    /\ ~ret.encoded

\* decoding the argument at position i of the last adapter call fails
FailsAt(i) ==
    IF op = "FnWrap" THEN RegoToGo(adp.types[i], adp.terms[i]).st # "ok"
    ELSE ~adp.asOk[i]

\* the error decoding the argument at position i gives
DecodeError(i) ==
    IF op = "FnWrap" THEN RegoToGo(adp.types[i], adp.terms[i]).err ELSE "as"

\* C16: an adapter of arity N decodes its arguments in the order 1..N; when
\* the argument at position i is the first whose decoding fails, positions
\* 1..i have been decoded and no later one, the wrapped function is not
\* invoked, and the adapter returns the error of position i.
C16_PositionalShortCircuit ==
    (op \in AdapterOps /\ Len(adp.terms) >= adp.n)
        => \A i \in 1..adp.n :
               (FailsAt(i) /\ \A j \in 1..(i - 1) : ~FailsAt(j))
                   => /\ ret.tried = i
                      /\ ~ret.called
                      /\ ret.st = "err"
                      /\ ret.err = DecodeError(i)
                      /\ ret.term = NoTerm

C16_Witness ==
    /\ op = "FnWrap"
    /\ adp.types = <<TInt8, TString>>
    /\ adp.terms = <<String("a"), Number(<<"4", "2">>)>>
    /\ ret.tried = 1
    /\ ~ret.called
    /\ ret.st = "err"

\* the import data.regobrick.default_false as a reference and as a path
Sentinel == <<"data", "regobrick", "default_false">>
SentinelPath == <<"data", ".", "regobrick", ".", "default_false">>

\* the sentinel is written in the source or handed in among the imports
SentinelGiven ==
    \/ \E i \in 1..Len(pin.mod.imports) : pin.mod.imports[i] = Sentinel
    \/ \E i \in 1..Len(pin.imports) : pin.imports[i] = SentinelPath

\* the rules a call appended to those of the source
Appended(mod) == SubSeq(mod.rules, Len(pin.mod.rules) + 1, Len(mod.rules))

\* C17: ParseModule injects the defaults exactly when the import list, the
\* extra imports included, holds data.regobrick.default_false; without it
\* the rules of the parsed module are returned as they were.
C17_InjectionIffSentinel ==
    (op = "ParseModule" /\ pout.st = "ok") =>
        /\ SentinelGiven => pout.mod.rules = addDefaultFalse(pin.mod).rules
        /\ ~SentinelGiven => pout.mod.rules = pin.mod.rules

\* the sentinel comes from the extra imports alone and a default is appended
C17_Witness ==
    /\ op = "ParseModule" /\ pout.st = "ok"
    /\ \A i \in 1..Len(pin.mod.imports) : pin.mod.imports[i] # Sentinel
    /\ SentinelGiven
    /\ Len(Appended(pout.mod)) > 0

\* the transform ran: called on the module, or by ParseModule for the sentinel
Transformed ==
    \/ op = "addDefaultFalse"
    \/ op = "ParseModule" /\ pout.st = "ok" /\ SentinelGiven

RuleRefs == {"allow", "deny"}

\* the positions of the default rules of a reference
DefaultsOf(rules, ref) == {i \in 1..Len(rules) : rules[i].default /\ rules[i].ref = ref}

\* the positions of the bodies that make a reference boolean or conditional
BodiesOf(rules, ref) ==
    {i \in 1..Len(rules) : /\ rules[i].ref = ref /\ ~rules[i].default
                           /\ rules[i].args = 0 /\ rules[i].key \in {"nil", "if"}}

FunctionRefs ==
    {ref \in RuleRefs :
        /\ \E i \in 1..Len(pin.mod.rules) : pin.mod.rules[i].ref = ref
        /\ \A i \in 1..Len(pin.mod.rules) :
               pin.mod.rules[i].ref = ref => pin.mod.rules[i].args > 0}

\* C19: the transform appends no default rule for a reference that is
\* defined by function rules, also when other rules of the module get one.
C19_NoDefaultForFunctions ==
    Transformed =>
        \A i \in 1..Len(Appended(pout.mod)) : Appended(pout.mod)[i].ref \notin FunctionRefs

\* a module with a function and a boolean rule: only the boolean rule's
\* reference gets a default
C19_Witness ==
    /\ op = "ParseModule" /\ Transformed
    /\ "allow" \in FunctionRefs
    /\ DefaultsOf(pout.mod.rules, "allow") = {}
    /\ \E i \in 1..Len(Appended(pout.mod)) : Appended(pout.mod)[i].ref = "deny"

\* C20: a second run of the transform over the module the first run left
\* adds no rule: the rules after the second run are those after the first.
C20_SecondRunAddsNothing ==
    op = "addDefaultFalse" => pout.twice.rules = pout.mod.rules

\* the first run appended a default, the second run none
C20_Witness ==
    /\ op = "addDefaultFalse"
    /\ Len(pout.mod.rules) > Len(pin.mod.rules)
    /\ Len(pout.twice.rules) = Len(pout.mod.rules)

\* the source, or one of the sources, of the loading call does not parse
ParseFails ==
    \/ op = "Module" /\ ~pin.ok
    \/ op = "Brick.Rego" /\ \E i \in 1..Len(pin.modules) : ~pin.modules[i].parsed.ok

\* C21 as stated: when the source fails to parse, the loading entry point
\* reports the parse error to its caller and hands the engine nothing,
\* neither a module nor the raw source.
C21_ParseErrorReported ==
    ParseFails => (pout.st = "err" /\ pout.err = "parse" /\ eng = <<>>)

\* C21 as the code has it: when a source fails to parse the engine gets no
\* parsed module of that source.  Brick.Rego returns the parse error and
\* hands the engine nothing at all; the Module option returns nothing and
\* hands the engine the raw source alone.
C21_NoModuleFromFailedParse ==
    /\ (op = "Brick.Rego" /\ ParseFails) =>
           (pout.st = "err" /\ pout.err = "parse" /\ eng = <<>>)
    /\ (op = "Module" /\ ParseFails) =>
           (pout.st = "void" /\ eng = <<RawModule([ok |-> FALSE, mod |-> pin.mod])>>)
    /\ (op \in {"Module", "Brick.Rego"} /\ ParseFails) =>
           \A i \in 1..Len(eng) : eng[i].kind # "ParsedModule"

\* a Brick whose second source fails after a first that parsed
C21_Witness ==
    /\ op = "Brick.Rego"
    /\ Len(pin.modules) = 2
    /\ pin.modules[1].parsed.ok /\ ~pin.modules[2].parsed.ok
    /\ pout.st = "err" /\ eng = <<>>

RegisterOps == {"RegisterBuiltin", "RegisterThenFilter"}

\* the categories a registration passes: those of its last WithCategories
\* option, none without one
PassedCategories(opts) ==
    LET given == {i \in 1..Len(opts) : opts[i].option = "WithCategories"}
    IN  IF given = {} THEN <<>>
        ELSE opts[CHOOSE i \in given : \A j \in given : j <= i].cats.elems

\* C22: a registration leaves under its name exactly the category list it
\* passed, nil when it passed none, whatever the name had before; it leaves
\* the other names as they were, and no other call changes the table.  So
\* after any sequence of registrations every name has the list of its most
\* recent registration.
C22_LastRegistrationWins ==
    [][ /\ op' \in RegisterOps =>
            /\ customBuiltinCategories'[pin'.name] =
                   (IF PassedCategories(pin'.opts) = <<>> THEN Stored(NilSlice)
                    ELSE Stored(Slice(PassedCategories(pin'.opts))))
            /\ \A n \in BuiltinNames \ {pin'.name} :
                   customBuiltinCategories'[n] = customBuiltinCategories[n]
        /\ op' \notin RegisterOps => customBuiltinCategories' = customBuiltinCategories
      ]_vars

\* a name that had the categories c1, c2 is registered again with c2 alone,
\* while the other name keeps its list
C22_Witness ==
    /\ op = "RegisterBuiltin"
    /\ pin.name = "f"
    /\ pin.before = Stored(Slice(<<"c1", "c2">>))
    /\ customBuiltinCategories["f"] = Stored(Slice(<<"c2">>))
    /\ customBuiltinCategories["g"] = Stored(Slice(<<"c1">>))

FilterOps == {"FilterCapabilities", "RegisterThenFilter"}

\* the names of the builtins the filter kept
KeptNames == {b.name : b \in pout.builtins}

\* C23: with empty or nil allow-lists FilterCapabilities keeps exactly the
\* builtins of the core infix operators =, := and in: each of the three is
\* there and no builtin of another kind is.
C23_EmptyListsKeepCoreInfixes ==
    (op \in FilterOps /\ pin.allowedNames.elems = <<>> /\ pin.allowedCats.elems = <<>>) =>
        /\ {b.infix : b \in pout.builtins} = {"=", ":=", "in"}
        /\ pout.builtins = {b \in EngineBuiltins : b.infix \in {"=", ":=", "in"}}

\* nil lists, with a custom builtin registered under categories: it is not
\* kept, the core operators are
C23_Witness ==
    /\ op = "FilterCapabilities"
    /\ pin.allowedNames = NilSlice /\ pin.allowedCats = NilSlice
    /\ customBuiltinCategories["f"] = Stored(Slice(<<"c1">>))
    /\ "f" \notin KeptNames
    /\ {"eq", "assign", "internal.member_2"} \subseteq KeptNames

\* the members of a []string
Members(slice) == {slice.elems[i] : i \in 1..Len(slice.elems)}

\* C24: after a custom builtin is registered with a category list,
\* FilterCapabilities keeps it exactly when its name is among the allowed
\* names or one of its categories among the allowed categories; registered
\* without categories it is kept only by name.
C24_CustomBuiltinKept ==
    op = "RegisterThenFilter" =>
        (pin.name \in KeptNames <=>
            \/ pin.name \in Members(pin.allowedNames)
            \/ \E i \in 1..Len(PassedCategories(pin.opts)) :
                   PassedCategories(pin.opts)[i] \in Members(pin.allowedCats))

\* kept through its second category alone
C24_Witness ==
    /\ op = "RegisterThenFilter"
    /\ pin.name = "f"
    /\ PassedCategories(pin.opts) = <<"c1", "c2">>
    /\ pin.allowedNames = Slice(<<>>)
    /\ pin.allowedCats = Slice(<<"c2">>)
    /\ "f" \in KeptNames

\* C25: invocations of adapters running concurrently, interleaved in any
\* order, each on its own terms, return what each returns run alone from
\* start to end, and leave the process-wide table as it was: a step reads
\* and writes the frame of its own invocation only.
C25_InterleavingIsSequential ==
    op = "Concurrent" =>
        /\ customBuiltinCategories = [name \in BuiltinNames |-> NotStored]
        /\ \A g \in DOMAIN inv :
               /\ inv[g].pc = "done" =>
                      inv[g].ret = FnWrap(inv[g].types, inv[g].valueForm, inv[g].fn,
                                          inv[g].terms)
               /\ \A i \in 1..Len(inv[g].vals) :
                      inv[g].vals[i] = RegoToGo(inv[g].types[i], inv[g].terms[i]).rv

\* both invocations returned, one with a term and one with a decode error,
\* from different terms
C25_Witness ==
    /\ op = "Concurrent"
    /\ inv[1].pc = "done" /\ inv[2].pc = "done"
    /\ inv[1].terms # inv[2].terms
    /\ inv[1].ret.st = "ok" /\ inv[1].ret.encoded
    /\ inv[2].ret.st = "err" /\ inv[2].ret.tried = 1

\* the part of C26 about struct fields: in a field of type
\* decimal.NullDecimal Null gives the invalid state and a Number the valid
\* decimal of its text
C26_NullDecimalField ==
    (op = "RegoToGoField" /\ typ = TNullDecimal) =>
        /\ val.k = "null" =>
               (dec.st = "ok" /\ Decoded = GoNullDecimal(DecimalZero, FALSE))
        /\ (val.k = "number" /\ NewFromString(val.n).ok) =>
               (dec.st = "ok" /\ Decoded = GoNullDecimal(NewFromString(val.n).v, TRUE))
        /\ val = Number(<<"1", ".", "5">>) =>
               Decoded = GoNullDecimal(MkDecimal(FALSE, <<1, 5>>, 0 - 1), TRUE)

\* C26: decoding into decimal.NullDecimal maps Null to the invalid state
\* and a Number to the valid decimal of exactly its text, as the top-level
\* target type and as the type of a struct field alike.
C26_NullDecimal ==
    (op \in DecodeOps /\ typ = TNullDecimal) =>
        /\ C26_NullDecimalField
        /\ val.k = "null" =>
               (dec.st = "ok" /\ Decoded = GoNullDecimal(DecimalZero, FALSE))
        /\ (val.k = "number" /\ NewFromString(val.n).ok) =>
               (dec.st = "ok" /\ Decoded = GoNullDecimal(NewFromString(val.n).v, TRUE))

\* the values the decode into interface{} is defined for: Null, Boolean,
\* String, a Number float64 can read, Arrays of such values and Objects with
\* String keys and such values
RECURSIVE Structural(_)
Structural(v) ==
    CASE v.k \in {"null", "boolean", "string"} -> TRUE
      [] v.k = "number" -> ParseFloat(v.n).ok
      [] v.k = "array" -> \A i \in 1..Len(v.elems) : Structural(v.elems[i])
      [] v.k = "object" ->
           \A i \in 1..Len(v.ents) : v.ents[i].key.k = "string" /\ Structural(v.ents[i].val)
      [] OTHER -> FALSE

\* the interface{} x holds what the claim names for the value v
AnyOf(x, v) ==
    CASE v.k = "null" -> x.nil
      [] v.k = "boolean" -> ~x.nil /\ x.dyn = GoBool(TBool, v.b)
      [] v.k = "string" -> ~x.nil /\ x.dyn = GoString(TString, v.s)
      [] v.k = "number" -> ~x.nil /\ x.dyn = GoFloat(TFloat64, ParseFloat(v.n).v)
      [] v.k = "array" ->
           ~x.nil /\ x.dyn.t = SliceOf(TAny) /\ Len(x.dyn.elems) = Len(v.elems)
      [] v.k = "object" ->
           /\ ~x.nil /\ x.dyn.t = MapOf(TString, TAny)
           /\ {e.key.s : e \in x.dyn.ents} = {v.ents[i].key.s : i \in 1..Len(v.ents)}

\* the part of C27 about fields: a field of type interface{} takes every
\* structural value
C27_AnyField ==
    (op = "RegoToGoField" /\ typ = TAny /\ Structural(val)) =>
        (dec.st = "ok" /\ AnyOf(Decoded, val))

\* C27: decoding with the target type interface{}, as the top-level target
\* or as a field type, succeeds for every Null, Boolean, String, Number,
\* Array and Object and yields nil, bool, string, float64, a list of
\* interface{} and a string-keyed map of interface{}.
C27_AnyTarget ==
    (op \in DecodeOps /\ typ = TAny /\ Structural(val)) =>
        (dec.st = "ok" /\ AnyOf(Decoded, val))

\* slice, map and pointer-to-scalar types
Composite(t) ==
    \/ t.kind \in {"slice", "map"}
    \/ t.kind = "ptr" /\ t.elem \in ScalarTypes

\* C28: a value present under a struct field's key is decoded by the rules
\* of a top-level decode of the field's type, and a non-Null value for a
\* pointer target by those of its pointee: a field of slice, map or
\* pointer-to-scalar type given a non-Null value that decodes at the top
\* level decodes to the same value in the field.
C28_FieldLikeTopLevel ==
    /\ (op = "RegoToGoField" /\ Composite(typ) /\ val.k # "null"
            /\ RegoToGo(typ, val).st = "ok") =>
           (dec.st = "ok" /\ Decoded = RegoToGo(typ, val).rv)
    /\ (op = "RegoToGo" /\ typ.kind = "ptr" /\ val.k # "null"
            /\ (typ.elem \in ScalarTypes \/ typ.elem.kind \in {"slice", "map"})
            /\ RegoToGo(typ.elem, val).st = "ok") =>
           (dec.st = "ok" /\ dec.rv = GoPtr(typ, RegoToGo(typ.elem, val).rv))

\* the part of C28 that holds: a pointer to a scalar as the top-level target
C28_PointerToScalar ==
    (op = "RegoToGo" /\ typ.kind = "ptr" /\ typ.elem \in ScalarTypes /\ val.k # "null"
        /\ RegoToGo(typ.elem, val).st = "ok") =>
        (dec.st = "ok" /\ dec.rv = GoPtr(typ, RegoToGo(typ.elem, val).rv))

\* an Object all of whose keys are Strings
StringKeyed(v) == v.k = "object" /\ \A i \in 1..Len(v.ents) : v.ents[i].key.k = "string"

\* the part of C29 that holds: an Object whose values are Objects decodes
\* into map[string]struct{} with its keys
C29_ObjectValuedKeys ==
    (op = "RegoToGo" /\ typ = TStringSet /\ StringKeyed(val)
        /\ \A i \in 1..Len(val.ents) : val.ents[i].val.k = "object") =>
        /\ dec.st = "ok"
        /\ {e.key.s : e \in dec.rv.ents} = {val.ents[i].key.s : i \in 1..Len(val.ents)}

\* C29: decoding an Object into map[string]struct{} succeeds whatever the
\* values of the Object are, and the keys of the map are exactly the keys
\* of the Object.
C29_PresenceMapFromObject ==
    (op = "RegoToGo" /\ typ = TStringSet /\ StringKeyed(val)) =>
        /\ dec.st = "ok"
        /\ {e.key.s : e \in dec.rv.ents} = {val.ents[i].key.s : i \in 1..Len(val.ents)}

\* a map value whose key type is not string
NonStringKeyed(rv) == rv.t.kind = "map" /\ rv.t.key.kind # "string"

\* the part of C30 that holds: a map with a non-string key type and at
\* least one entry is answered with the key-type error
C30_NonEmptyRejected ==
    (op = "GoToRego" /\ NonStringKeyed(gin) /\ Ents(gin) # {}) =>
        (enc.st = "err" /\ enc.err = "keytype")

\* C30: encoding a map whose key type is not string returns the key-type
\* error whatever the map holds, so an Object comes only from a
\* string-keyed map.
C30_NonStringKeyRejected ==
    (op = "GoToRego" /\ NonStringKeyed(gin)) =>
        (enc.st = "err" /\ enc.err = "keytype")

====
